---- MODULE Spec2Model ----
(***************************************************************************)
(* The Pulumi program of lumitorch/ci-infra (src/__main__.py) and the nine *)
(* layer modules it calls, as a state machine.  One run of the program is  *)
(* one behaviour: the configuration is chosen in Init, the top-level       *)
(* script advances block by block (pc), every layer call is one step that  *)
(* declares resources, publishes the layer's exports and either returns    *)
(* its Layer Output or raises.                                             *)
(***************************************************************************)
EXTENDS Integers, Sequences, FiniteSets, TLC

VARIABLES
    config,             \* the Pulumi configuration namespace (read-only)
    pc,                 \* position of the top-level script
    cloud_provider,     \* __main__.py:24
    deploy_arc, deploy_ali, deploy_argocd,               \* __main__.py:27-29
    deploy_arc_gcp, deploy_ali_gcp, deploy_argocd_gcp,   \* __main__.py:32-34
    exports,            \* the stack outputs written by pulumi.export
    published,          \* history: <<chain, layer, key>> of every pulumi.export
    republished,        \* history: keys exported when already present
    status,             \* per layer: not_started / done / failed
    declared,           \* per layer: number of resources declared so far
    loaded,             \* per chain: imports not reached / ok / failed
    attempted,          \* chains whose try block was entered
    started,            \* layers in the order their deploy() was called
    outputs,            \* per layer: the Layer Output it returned
    backend,            \* what the backend answers to the lookups of this run
    previous,           \* what an earlier run with this configuration did
    resolution          \* per layer: what became of its Deferred Values

vars == <<config, pc, cloud_provider, deploy_arc, deploy_ali, deploy_argocd,
          deploy_arc_gcp, deploy_ali_gcp, deploy_argocd_gcp, exports,
          published, republished, status, declared, loaded, attempted,
          started, outputs, backend, previous, resolution>>

(***************************************************************************)
(* Bounds                                                                  *)
(***************************************************************************)
\* A layer may raise before its first resource, after any of its first
\* MaxCut resource declarations, and where the source makes a backend
\* lookup between declarations.
MaxCut == 0

(***************************************************************************)
(* Names                                                                   *)
(***************************************************************************)
Absent == "<absent>"

Chains == {"arc", "ali", "arc_gcp", "ali_gcp", "shared_gcp"}
AwsChains == {"arc", "ali"}
GcpChains == {"arc_gcp", "ali_gcp", "shared_gcp"}
Main == "__main__"

Layers == {"arc_infra", "arc_helm", "arc_argocd", "ali_infra",
           "arc_infra_gcp", "arc_helm_gcp", "arc_argocd_gcp",
           "ali_infra_gcp", "backend_state_gcp"}

ChainOf(layer) ==
    CASE layer \in {"arc_infra", "arc_helm", "arc_argocd"} -> "arc"
      [] layer = "ali_infra" -> "ali"
      [] layer \in {"arc_infra_gcp", "arc_helm_gcp", "arc_argocd_gcp"} -> "arc_gcp"
      [] layer = "ali_infra_gcp" -> "ali_gcp"
      [] layer = "backend_state_gcp" -> "shared_gcp"

LayersOf(chain) == {l \in Layers : ChainOf(l) = chain}

EmptyMap == [k \in {} |-> ""]

Min(a, b) == IF a < b THEN a ELSE b

(***************************************************************************)
(* Configuration                                                           *)
(***************************************************************************)
\* Raw values a configuration key can hold.  Pulumi stores configuration
\* values as strings; "maybe" stands for any text that is not a boolean.
ProviderValues == {Absent, "aws", "gcp", "both", "azure"}
RegionValues == {Absent, "us-east-1"}
ProjectValues == {Absent, "pytorch-ci"}

FlagKeys == {"deploy_arc", "deploy_ali", "deploy_argocd",
             "deploy_arc_gcp", "deploy_ali_gcp", "deploy_argocd_gcp"}

\* The configurations that are run:
\*  - written out: cloud_provider given, every flag "true" or "false";
\*  - sparse: cloud_provider left out or gcp, every flag "true" or left out;
\*  - ill-typed: one flag holds a text that is not a boolean.
\* each with and without aws:region and gcp:project.
FlagSettings ==
    {[p |-> p, fs |-> fs] :
        p \in ProviderValues \ {Absent}, fs \in [FlagKeys -> {"true", "false"}]}
    \cup {[p |-> p, fs |-> fs] :
            p \in {Absent, "gcp"}, fs \in [FlagKeys -> {"true", Absent}]}
    \cup {[p |-> "both", fs |-> [k \in FlagKeys |-> IF k = bad THEN "maybe" ELSE "true"]] :
            bad \in FlagKeys}

Configs ==
    {[k \in FlagKeys \cup {"cloud_provider", "aws_region", "gcp_project"} |->
         CASE k = "cloud_provider" -> s.p
           [] k = "aws_region" -> r
           [] k = "gcp_project" -> g
           [] OTHER -> s.fs[k]] :
       r \in RegionValues, g \in ProjectValues, s \in FlagSettings}

\* The answers of the backend to the lookups a layer makes while it
\* declares: the account of get_caller_identity and the payload of
\* get_secret_version (a JSON object, or a text json.loads rejects).
HomeAccount == "391835788720"
Accounts == {HomeAccount, "000000000000"}
SecretPayloads == {"json-object", "malformed"}
Backends == [account : Accounts, secret : SecretPayloads]
HomeBackend == [account |-> HomeAccount, secret |-> "json-object"]

\* GetOr without the `or default`.
GetOrNone(v, default) == v

\* config.get(key) or default
GetOr(v, default) == IF v = Absent THEN default ELSE v

\* config.get_bool(key): None when absent, a bool for "true"/"false", and
\* a ConfigTypeError for anything else.
IsBoolText(v) == v \in {Absent, "true", "false"}
GetBoolOrFalse(v) == v = "true"

WellTyped(cfg) == \A k \in FlagKeys : IsBoolText(cfg[k])

\* Default lists of the ALI layers (gcp_vpc_suffixes, aws_vpc_suffixes).
VpcSuffixes == <<"I", "II">>

\* RunnerScaleSets read from the payload of the GitHub App secret.
RunnerScaleSetsFromSecret == <<backend.secret>>

\* The runner scale sets of the AWS rollout layer (a dict literal).
RunnerScaleSets == <<"aws">>

\* The resources the AWS rollout layer declares for its runner scale sets.
RECURSIVE ScaleSetResources(_)
ScaleSetResources(names) ==
    IF names = << >> THEN << >>
    ELSE << <<"k8s:core:Namespace", "arc-runners-" \o Head(names)>>,
            <<"k8s:core:Secret", "github-app-" \o Head(names)>>,
            <<"k8s:rbac:RoleBinding", "secret-access-" \o Head(names)>> >>
         \o ScaleSetResources(Tail(names))

\* AliVpcName without the suffix of the VPC.
AliVpcNameUnsuffixed(suffix) == "ali-runners-vpc"

\* The logical name of a production VPC of the AWS ALI layer.
AliVpcName(suffix) == "ali-runners-vpc-" \o suffix

(***************************************************************************)
(* Resource declarations of the layers, in declaration order, with the     *)
(* default naming configuration: <<kind, logical name>>.                   *)
(***************************************************************************)
LayerResources(layer) ==
    CASE layer = "arc_infra" ->
           << <<"awsx:ec2:Vpc", "arc-runners-vpc">>,
              <<"aws:iam:Role", "pytorch-ci-admins">>,
              <<"aws:iam:RolePolicyAttachment", "pytorch-ci-admins-eks-cluster">>,
              <<"aws:iam:RolePolicyAttachment", "pytorch-arc-admins-eks-service">>,
              <<"eks:Cluster", "lf-arc-dev-eks">> >>
      [] layer = "arc_helm" ->
           << <<"k8s:Provider", "arc-k8s-provider">>,
              <<"k8s:core:Namespace", "cert-manager">>,
              <<"k8s:helm:Release", "cert-manager">>,
              <<"k8s:apiextensions:CustomResource", "letsencrypt-prod">>,
              <<"k8s:helm:Release", "ingress-nginx">>,
              <<"k8s:core:Secret", "argocd-github-oauth">>,
              <<"k8s:helm:Release", "argocd">>,
              <<"k8s:helm:Release", "arc">> >>
      [] layer = "arc_argocd" ->
           << <<"k8s:rbac:ClusterRole", "secret-reader">> >>
           \o ScaleSetResources(RunnerScaleSets)
           \o << <<"k8s:apiextensions:CustomResource", "arc-runner-scale-sets">> >>
      [] layer = "ali_infra" ->
           << <<"awsx:ec2:Vpc", AliVpcName(VpcSuffixes[1])>>,
              <<"awsx:ec2:Vpc", AliVpcName(VpcSuffixes[2])>>,
              <<"aws:ec2:VpcPeeringConnection", "ali-runners-vpc-peering">>,
              <<"awsx:ec2:Vpc", "ali-runners-canary-vpc-I">>,
              <<"aws:iam:Role", "ossci-gha-terraform">>,
              <<"aws:iam:RolePolicyAttachment", "ossci-gha-terraform-admin">>,
              <<"aws:iam:Policy", "allow-ecr-on-gha-runners">>,
              <<"aws:iam:Policy", "allow-secretmanager-docker-hub-token">>,
              <<"aws:iam:Policy", "allow-s3-sccache-access">>,
              <<"aws:iam:Policy", "allow-lambda-on-gha-runners">> >>
      [] layer = "arc_infra_gcp" ->
           << <<"gcp:compute:Network", "arc-runners-vpc">>,
              <<"gcp:compute:Subnetwork", "arc-runners-subnet">>,
              <<"gcp:compute:Router", "arc-cloud-router">>,
              <<"gcp:compute:RouterNat", "arc-cloud-nat">>,
              <<"gcp:serviceaccount:Account", "gke-node-sa">>,
              <<"gcp:projects:IAMMember", "gke-node-sa-0">>,
              <<"gcp:projects:IAMMember", "gke-node-sa-1">>,
              <<"gcp:projects:IAMMember", "gke-node-sa-2">>,
              <<"gcp:projects:IAMMember", "gke-node-sa-3">>,
              <<"gcp:serviceaccount:Account", "pytorch-ci-admins">>,
              <<"gcp:projects:IAMMember", "pytorch-ci-admins-0">>,
              <<"gcp:projects:IAMMember", "pytorch-ci-admins-1">>,
              <<"gcp:projects:IAMMember", "pytorch-ci-admins-2">>,
              <<"gcp:container:Cluster", "lf-arc-dev-gke">>,
              <<"gcp:container:NodePool", "arc-node-pool">> >>
      [] layer = "arc_helm_gcp" ->
           << <<"k8s:Provider", "arc-gcp-k8s-provider">>,
              <<"k8s:core:Namespace", "cert-manager-gcp">>,
              <<"k8s:helm:Release", "cert-manager-gcp">>,
              <<"k8s:apiextensions:CustomResource", "letsencrypt-prod-gcp">>,
              <<"k8s:core:Namespace", "ingress-nginx-gcp">>,
              <<"k8s:helm:Release", "nginx-ingress-gcp">>,
              <<"k8s:core:Namespace", "argocd-namespace-gcp">>,
              <<"k8s:helm:Release", "argocd-gcp">>,
              <<"k8s:core:Namespace", "arc-namespace-gcp">>,
              <<"k8s:helm:Release", "arc-controller-gcp">> >>
      [] layer = "arc_argocd_gcp" ->
           << <<"k8s:apiextensions:CustomResource", "argocd-app-arc-runner-linux-amd64-cpu-gcp">>,
              <<"k8s:apiextensions:CustomResource", "argocd-app-arc-runner-linux-amd64-gpu-gcp">>,
              <<"k8s:apiextensions:CustomResource", "argocd-app-arc-runner-linux-arm64-cpu-gcp">>,
              <<"k8s:apiextensions:CustomResource", "argocd-app-arc-runner-windows-amd64-gcp">>,
              <<"k8s:apiextensions:CustomResource", "arc-runners-project-gcp">>,
              <<"k8s:core:Namespace", "arc-runners-namespace-gcp">>,
              <<"k8s:core:ConfigMap", "arc-runner-configs-gcp">> >>
      [] layer = "ali_infra_gcp" ->
           << <<"gcp:compute:Network", "ali-runners-vpc-I">>,
              <<"gcp:compute:Subnetwork", "ali-runners-subnet-I">>,
              <<"gcp:compute:Router", "ali-router-I">>,
              <<"gcp:compute:RouterNat", "ali-nat-I">>,
              <<"gcp:compute:Network", "ali-runners-vpc-II">>,
              <<"gcp:compute:Subnetwork", "ali-runners-subnet-II">>,
              <<"gcp:compute:Router", "ali-router-II">>,
              <<"gcp:compute:RouterNat", "ali-nat-II">>,
              <<"gcp:compute:NetworkPeering", "ali-vpc-peering-1">>,
              <<"gcp:compute:NetworkPeering", "ali-vpc-peering-2">>,
              <<"gcp:compute:Network", "ali-runners-canary-vpc-I">>,
              <<"gcp:compute:Subnetwork", "ali-runners-canary-subnet-I">>,
              <<"gcp:compute:Router", "ali-canary-router-I">>,
              <<"gcp:compute:RouterNat", "ali-canary-nat-I">>,
              <<"gcp:serviceaccount:Account", "ossci-gha-terraform">>,
              <<"gcp:iam:WorkloadIdentityPool", "github-actions-pool">>,
              <<"gcp:iam:WorkloadIdentityPoolProvider", "github-actions-provider">>,
              <<"gcp:projects:IAMMember", "github-actions-sa-0">>,
              <<"gcp:projects:IAMMember", "github-actions-sa-1">>,
              <<"gcp:projects:IAMMember", "github-actions-sa-2">>,
              <<"gcp:projects:IAMMember", "github-actions-sa-3">>,
              <<"gcp:serviceaccount:IAMBinding", "github-actions-sa-binding">>,
              <<"gcp:serviceaccount:Account", "ali-autoscaler-sa">>,
              <<"gcp:projects:IAMMember", "autoscaler-sa-0">>,
              <<"gcp:projects:IAMMember", "autoscaler-sa-1">>,
              <<"gcp:projects:IAMMember", "autoscaler-sa-2">>,
              <<"gcp:projects:IAMMember", "autoscaler-sa-3">>,
              <<"gcp:serviceaccount:Account", "artifact-registry-sa">>,
              <<"gcp:projects:IAMMember", "artifact-registry-reader">>,
              <<"gcp:serviceaccount:Account", "storage-sccache-sa">>,
              <<"gcp:storage:Bucket", "ossci-compiler-cache">>,
              <<"gcp:storage:BucketIAMMember", "sccache-bucket-iam">>,
              <<"gcp:serviceaccount:Account", "cloud-functions-sa">>,
              <<"gcp:projects:IAMMember", "functions-sa-0">>,
              <<"gcp:projects:IAMMember", "functions-sa-1">> >>
      [] layer = "backend_state_gcp" ->
           << <<"gcp:storage:Bucket", "backend-state-bucket">>,
              <<"gcp:storage:Bucket", "backend-state-backup-bucket">>,
              <<"gcp:projects:Service", "firestore-api">>,
              <<"gcp:firestore:Database", "state-lock-database">>,
              <<"gcp:serviceaccount:Account", "state-management-sa">>,
              <<"gcp:storage:BucketIAMMember", "state-bucket-admin">>,
              <<"gcp:storage:BucketIAMMember", "backup-bucket-admin">>,
              <<"gcp:projects:IAMMember", "firestore-admin">>,
              <<"gcp:storage:Bucket", "artifacts-bucket">>,
              <<"gcp:storage:Bucket", "logs-bucket">> >>

\* Number of resources already declared when a backend lookup made by the
\* layer (get_caller_identity, get_secret_version) can raise.
LookupCuts(layer) ==
    CASE layer = "arc_infra" -> {0}
      [] layer = "ali_infra" -> {0}
      [] layer = "arc_helm" -> {5}
      [] layer = "arc_argocd" -> {0}
      [] OTHER -> {}

\* The required configuration key of a layer (Config.require), if any.
RequiredKey(layer) ==
    CASE layer \in {"arc_infra", "ali_infra"} -> "aws_region"
      [] layer \in {"arc_infra_gcp", "ali_infra_gcp", "backend_state_gcp"} -> "gcp_project"
      [] OTHER -> Absent

MissingRequired(layer) ==
    RequiredKey(layer) # Absent /\ config[RequiredKey(layer)] = Absent

\* Outcomes with the required key read after the first declaration.
OutcomesRequireLate(layer) ==
    IF MissingRequired(layer)
    THEN {[raised |-> TRUE, n |-> 1]}
    ELSE {[raised |-> FALSE, n |-> Len(LayerResources(layer))]}
         \cup {[raised |-> TRUE, n |-> c] :
                 c \in (0 .. Min(MaxCut, Len(LayerResources(layer))))
                       \cup LookupCuts(layer)}

\* The ways one call of layer.deploy can end: it returns after declaring
\* all its resources, or it raises after declaring the first n of them.
\* A missing required key raises before anything is declared.
Outcomes(layer) ==
    IF MissingRequired(layer)
    THEN {[raised |-> TRUE, n |-> 0]}
    ELSE {[raised |-> FALSE, n |-> Len(LayerResources(layer))]}
         \cup {[raised |-> TRUE, n |-> c] :
                 c \in (0 .. Min(MaxCut, Len(LayerResources(layer))))
                       \cup LookupCuts(layer)}

(***************************************************************************)
(* Layer Outputs and the exports the layers publish themselves             *)
(***************************************************************************)
PyTrue == "True"

\* A Deferred Value: attribute attr of the declared resource res.
Out(res, attr) == "Output(" \o res \o "." \o attr \o ")"

\* dict(items): the mapping built from <<key, value>> pairs, later pairs win.
RECURSIVE DictUpdate(_, _)
DictUpdate(d, items) ==
    IF items = << >> THEN d
    ELSE LET k == Head(items)[1]
             v == Head(items)[2]
         IN  DictUpdate([x \in DOMAIN d \cup {k} |-> IF x = k THEN v ELSE d[x]],
                        Tail(items))

\* The entries a layer writes into its `outputs` dict literal, in order
\* (without the **inputs it may pass through), given the account id of the
\* caller identity.
OwnItemsWith(layer, account) ==
    CASE layer = "arc_infra" ->
           << <<"vpc_id", Out("arc-runners-vpc", "vpc_id")>>,
              <<"vpc_cidr", Out("arc-runners-vpc", "vpc.cidr_block")>>,
              <<"private_subnet_ids", Out("arc-runners-vpc", "private_subnet_ids")>>,
              <<"public_subnet_ids", Out("arc-runners-vpc", "public_subnet_ids")>>,
              <<"eks_cluster", "Resource(lf-arc-dev-eks)">>,
              <<"eks_cluster_name", Out("lf-arc-dev-eks", "name")>>,
              <<"eks_cluster_endpoint", Out("lf-arc-dev-eks", "endpoint")>>,
              <<"eks_cluster_certificate_authority", Out("lf-arc-dev-eks", "certificate_authority")>>,
              <<"eks_oidc_provider", Out("lf-arc-dev-eks", "oidc_provider")>>,
              <<"pytorch_ci_admins_role_arn", Out("pytorch-ci-admins", "arn")>>,
              <<"aws_account_id", account>>,
              <<"aws_region", config.aws_region>>,
              <<"arc_prod_environment", "lf-arc-prod">> >>
      [] layer = "arc_helm" ->
           << <<"k8s_provider", "Resource(arc-k8s-provider)">>,
              <<"argocd_namespace", "argocd">>,
              <<"arc_namespace", "arc-system">>,
              <<"nginx_ingress_namespace", "ingress-nginx">>,
              <<"cert_manager_namespace", Out("cert-manager", "metadata.name")>> >>
      [] layer = "arc_argocd" ->
           << <<"runner_namespaces", "[" \o Out("arc-runners-aws", "metadata.name") \o "]">>,
              <<"application_set_name", Out("arc-runner-scale-sets", "metadata.name")>> >>
      [] layer = "ali_infra" ->
           << <<"prod_vpcs", "{I: Resource(ali-runners-vpc-I), II: Resource(ali-runners-vpc-II)}">>,
              <<"canary_vpc", "Resource(ali-runners-canary-vpc-I)">>,
              <<"ossci_gha_terraform_role_arn", Out("ossci-gha-terraform", "arn")>>,
              <<"ecr_policy_arn", Out("allow-ecr-on-gha-runners", "arn")>>,
              <<"docker_hub_policy_arn", Out("allow-secretmanager-docker-hub-token", "arn")>>,
              <<"sccache_policy_arn", Out("allow-s3-sccache-access", "arn")>>,
              <<"lambda_policy_arn", Out("allow-lambda-on-gha-runners", "arn")>>,
              <<"aws_account_id", account>>,
              <<"aws_region", config.aws_region>>,
              <<"ali_prod_environment", "ghci-lf">>,
              <<"ali_canary_environment", "ghci-lf-c">> >>
      [] layer = "arc_infra_gcp" ->
           << <<"gke_cluster", "Resource(lf-arc-dev-gke)">>,
              <<"gke_cluster_name", Out("lf-arc-dev-gke", "name")>>,
              <<"gke_cluster_endpoint", Out("lf-arc-dev-gke", "endpoint")>>,
              <<"gke_cluster_ca_certificate", Out("lf-arc-dev-gke", "master_auth.cluster_ca_certificate")>>,
              <<"vpc_network_id", Out("arc-runners-vpc", "id")>>,
              <<"vpc_network_name", Out("arc-runners-vpc", "name")>>,
              <<"subnetwork_id", Out("arc-runners-subnet", "id")>>,
              <<"subnetwork_name", Out("arc-runners-subnet", "name")>>,
              <<"gke_node_sa_email", Out("gke-node-sa", "email")>>,
              <<"pytorch_ci_admins_sa_email", Out("pytorch-ci-admins", "email")>>,
              <<"workload_identity_pool", config.gcp_project \o ".svc.id.goog">>,
              <<"kubeconfig", Out("lf-arc-dev-gke", "kubeconfig")>>,
              <<"gcp_project", config.gcp_project>>,
              <<"gcp_region", "us-central1">>,
              <<"arc_environment", "lf-arc-prod-gcp">> >>
      [] layer = "arc_helm_gcp" ->
           << <<"cert_manager_namespace", Out("cert-manager-gcp", "metadata.name")>>,
              <<"nginx_namespace", Out("ingress-nginx-gcp", "metadata.name")>>,
              <<"argocd_namespace", "argocd">>,
              <<"arc_namespace", Out("arc-namespace-gcp", "metadata.name")>>,
              <<"argocd_url", "https://argocd-gcp.pytorch.org">>,
              <<"k8s_provider", "Resource(arc-gcp-k8s-provider)">> >>
      [] layer = "arc_argocd_gcp" ->
           << <<"argocd_apps", "[arc-runner-linux-amd64-cpu, arc-runner-linux-amd64-gpu, arc-runner-linux-arm64-cpu, arc-runner-windows-amd64]">>,
              <<"app_project", "arc-runners">>,
              <<"runners_namespace", "arc-runners">>,
              <<"runner_config_map", "runner-configs">>,
              <<"runner_configs", "[linux-amd64-cpu, linux-amd64-gpu, linux-arm64-cpu, windows-amd64]">> >>
      [] layer = "ali_infra_gcp" ->
           << <<"prod_vpcs", "ali-runners-vpc">>,
              <<"prod_subnets", "ali-runners-subnet">>,
              <<"canary_vpc", "Resource(ali-runners-canary-vpc-I)">>,
              <<"canary_subnet", "Resource(ali-runners-canary-subnet-I)">>,
              <<"github_actions_sa_email", Out("ossci-gha-terraform", "email")>>,
              <<"workload_identity_pool", Out("github-actions-pool", "name")>>,
              <<"workload_identity_provider", Out("github-actions-provider", "name")>>,
              <<"autoscaler_sa_email", Out("ali-autoscaler-sa", "email")>>,
              <<"artifact_registry_sa_email", Out("artifact-registry-sa", "email")>>,
              <<"storage_sa_email", Out("storage-sccache-sa", "email")>>,
              <<"functions_sa_email", Out("cloud-functions-sa", "email")>>,
              <<"sccache_bucket", Out("ossci-compiler-cache", "name")>>,
              <<"gcp_project", config.gcp_project>>,
              <<"gcp_region", "us-central1">>,
              <<"ali_prod_environment", "ghci-lf-gcp">>,
              <<"ali_canary_environment", "ghci-lf-c-gcp">> >>
      [] layer = "backend_state_gcp" ->
           << <<"state_bucket_name", Out("backend-state-bucket", "name")>>,
              <<"state_bucket_url", Out("backend-state-bucket", "url")>>,
              <<"backup_bucket_name", Out("backend-state-backup-bucket", "name")>>,
              <<"backup_bucket_url", Out("backend-state-backup-bucket", "url")>>,
              <<"artifacts_bucket_name", Out("artifacts-bucket", "name")>>,
              <<"artifacts_bucket_url", Out("artifacts-bucket", "url")>>,
              <<"logs_bucket_name", Out("logs-bucket", "name")>>,
              <<"logs_bucket_url", Out("logs-bucket", "url")>>,
              <<"firestore_database_name", Out("state-lock-database", "name")>>,
              <<"state_management_sa_email", Out("state-management-sa", "email")>>,
              <<"gcp_project", config.gcp_project>>,
              <<"gcp_region", "us-central1">> >>

\* The entries of this run: the account is the one the backend answers.
OwnItems(layer) == OwnItemsWith(layer, backend.account)

\* PassesInputThrough with the GCP bootstrap layer written like the AWS one.
PassesInputThroughGcpToo(layer) == layer \in {"arc_helm", "arc_argocd", "arc_helm_gcp"}

\* The AWS bootstrap and rollout layers start their outputs with **inputs.
PassesInputThrough(layer) == layer \in {"arc_helm", "arc_argocd"}

\* The Layer Output a layer returns when called with `input`.
LayerOutput(layer, input) ==
    DictUpdate(IF PassesInputThrough(layer) THEN input ELSE EmptyMap,
               OwnItems(layer))

\* ExportPrefix with the provider put first in the bootstrap layer.
ExportPrefixProviderFirst(layer) ==
    CASE layer = "arc_infra_gcp" -> "arc_gcp_"
      [] layer = "arc_helm_gcp" -> "gcp_arc_helm_"
      [] layer = "arc_argocd_gcp" -> "arc_gcp_argocd_"
      [] layer = "ali_infra_gcp" -> "ali_gcp_"
      [] layer = "backend_state_gcp" -> "shared_gcp_"
      [] OTHER -> ""

\* The prefix the GCP layers put before every output key they export.
ExportPrefix(layer) ==
    CASE layer = "arc_infra_gcp" -> "arc_gcp_"
      [] layer = "arc_helm_gcp" -> "arc_gcp_helm_"
      [] layer = "arc_argocd_gcp" -> "arc_gcp_argocd_"
      [] layer = "ali_infra_gcp" -> "ali_gcp_"
      [] layer = "backend_state_gcp" -> "shared_gcp_"
      [] OTHER -> ""

\* The exports of one iteration of a GCP layer's `for key, value in
\* outputs.items()` loop.
RECURSIVE PerSuffix(_, _, _)
PerSuffix(stem, value, suffixes) ==
    IF suffixes = << >> THEN << >>
    ELSE << <<stem \o "_" \o Head(suffixes), "Resource(" \o value \o "-" \o Head(suffixes) \o ")">> >>
         \o PerSuffix(stem, value, Tail(suffixes))

LoopExport(layer, item) ==
    LET key == item[1]
        value == item[2]
    IN  CASE layer = "arc_helm_gcp" /\ key = "k8s_provider" -> << >>
          [] layer = "ali_infra_gcp" /\ key \in {"prod_vpcs", "prod_subnets"} ->
               PerSuffix(ExportPrefix(layer) \o key, value, VpcSuffixes)
          [] OTHER -> << <<ExportPrefix(layer) \o key, value>> >>

RECURSIVE LoopExports(_, _)
LoopExports(layer, items) ==
    IF items = << >> THEN << >>
    ELSE LoopExport(layer, Head(items)) \o LoopExports(layer, Tail(items))

\* Default of aws_canary_vpc_suffixes.
CanaryVpcSuffixes == <<"I">>

\* HasCanaryVpc decided by the account the backend reports.
HasCanaryVpcInHomeAccount == backend.account = HomeAccount

\* `if canary_vpc:` of the AWS ALI layer: a canary VPC was declared.
HasCanaryVpc == CanaryVpcSuffixes # << >>

\* The pulumi.export calls a layer makes after its last declaration, in
\* order: <<key, value>>.
LayerExports(layer) ==
    CASE layer = "arc_infra" ->
           << <<"arc_vpc_id", Out("arc-runners-vpc", "vpc_id")>>,
              <<"arc_eks_cluster_name", Out("lf-arc-dev-eks", "name")>>,
              <<"arc_eks_cluster_endpoint", Out("lf-arc-dev-eks", "endpoint")>>,
              <<"arc_pytorch_ci_admins_role_arn", Out("pytorch-ci-admins", "arn")>> >>
      [] layer = "arc_helm" ->
           << <<"arc_argocd_namespace", "argocd">>,
              <<"arc_arc_namespace", "arc-system">>,
              <<"arc_nginx_ingress_installed", PyTrue>>,
              <<"arc_argocd_installed", PyTrue>>,
              <<"arc_controller_installed", PyTrue>> >>
      [] layer = "arc_argocd" ->
           << <<"arc_runner_namespaces", "[" \o Out("arc-runners-aws", "metadata.name") \o "]">>,
              <<"arc_application_set_created", PyTrue>> >>
      [] layer = "ali_infra" ->
           << <<"ali_prod_vpc_ids", "{I: " \o Out("ali-runners-vpc-I", "vpc_id") \o ", II: " \o Out("ali-runners-vpc-II", "vpc_id") \o "}">> >>
           \o (IF HasCanaryVpc
               THEN << <<"ali_canary_vpc_id", Out("ali-runners-canary-vpc-I", "vpc_id")>> >>
               ELSE << >>)
           \o << <<"ali_ossci_gha_terraform_role_arn", Out("ossci-gha-terraform", "arn")>>,
                 <<"ali_ecr_policy_arn", Out("allow-ecr-on-gha-runners", "arn")>> >>
      [] OTHER -> LoopExports(layer, OwnItems(layer))

(***************************************************************************)
(* The export sink                                                         *)
(***************************************************************************)
Sink == [exports |-> exports, published |-> published,
         republished |-> republished]

\* pulumi.export(key, value), called by `layer` (or by the top-level
\* script, Main) while the script is inside `chain`.
Export(s, chain, layer, key, value) ==
    [exports |-> [x \in DOMAIN s.exports \cup {key} |->
                     IF x = key THEN value ELSE s.exports[x]],
     published |-> s.published \cup {<<chain, layer, key>>},
     republished |-> s.republished \cup
                       (IF key \in DOMAIN s.exports THEN {key} ELSE {})]

RECURSIVE ExportAll(_, _, _, _)
ExportAll(s, chain, layer, items) ==
    IF items = << >> THEN s
    ELSE ExportAll(Export(s, chain, layer, Head(items)[1], Head(items)[2]),
                   chain, layer, Tail(items))

SetSink(s) ==
    /\ exports' = s.exports
    /\ published' = s.published
    /\ republished' = s.republished

(***************************************************************************)
(* Keys and texts of the top-level script                                  *)
(***************************************************************************)
\* DeployedKey with the flags of the base and bootstrap layers exchanged.
DeployedKeyExchanged(layer) ==
    CASE layer = "arc_infra" -> "arc_helm_deployed"
      [] layer = "arc_helm" -> "arc_infrastructure_deployed"
      [] layer = "arc_argocd" -> "arc_argocd_deployed"
      [] layer = "ali_infra" -> "ali_infrastructure_deployed"
      [] layer = "arc_infra_gcp" -> "arc_gcp_helm_deployed"
      [] layer = "arc_helm_gcp" -> "arc_gcp_infrastructure_deployed"
      [] layer = "arc_argocd_gcp" -> "arc_gcp_argocd_deployed"
      [] layer = "ali_infra_gcp" -> "ali_gcp_infrastructure_deployed"
      [] layer = "backend_state_gcp" -> "shared_gcp_infrastructure_deployed"

\* DeployedKey with the GCP blocks pasted from the AWS blocks unrenamed.
DeployedKeyUnrenamed(layer) ==
    CASE layer \in {"arc_infra", "arc_infra_gcp"} -> "arc_infrastructure_deployed"
      [] layer \in {"arc_helm", "arc_helm_gcp"} -> "arc_helm_deployed"
      [] layer \in {"arc_argocd", "arc_argocd_gcp"} -> "arc_argocd_deployed"
      [] layer \in {"ali_infra", "ali_infra_gcp"} -> "ali_infrastructure_deployed"
      [] layer = "backend_state_gcp" -> "shared_gcp_infrastructure_deployed"

\* The success flag exported after a layer call returned.
DeployedKey(layer) ==
    CASE layer = "arc_infra" -> "arc_infrastructure_deployed"
      [] layer = "arc_helm" -> "arc_helm_deployed"
      [] layer = "arc_argocd" -> "arc_argocd_deployed"
      [] layer = "ali_infra" -> "ali_infrastructure_deployed"
      [] layer = "arc_infra_gcp" -> "arc_gcp_infrastructure_deployed"
      [] layer = "arc_helm_gcp" -> "arc_gcp_helm_deployed"
      [] layer = "arc_argocd_gcp" -> "arc_gcp_argocd_deployed"
      [] layer = "ali_infra_gcp" -> "ali_gcp_infrastructure_deployed"
      [] layer = "backend_state_gcp" -> "shared_gcp_infrastructure_deployed"

\* NoteKey with one note per provider.
NoteKeyPerProvider(chain) ==
    IF chain \in {"arc", "ali"} THEN "aws_deployment_note"
    ELSE "gcp_deployment_note"

\* NoteKey without the chain in the key.
NoteKeyUnqualified(chain) == "deployment_note"

\* The note exported by the except block of a chain.
NoteKey(chain) ==
    CASE chain = "arc" -> "arc_deployment_note"
      [] chain = "ali" -> "ali_deployment_note"
      [] chain = "arc_gcp" -> "arc_gcp_deployment_note"
      [] chain = "ali_gcp" -> "ali_gcp_deployment_note"
      [] chain = "shared_gcp" -> "shared_gcp_deployment_note"

NoteText(chain) ==
    CASE chain = "arc" -> "ARC deployment requires AWS credentials"
      [] chain = "ali" -> "ALI deployment requires AWS credentials"
      [] chain = "arc_gcp" -> "ARC GCP deployment requires GCP credentials"
      [] chain = "ali_gcp" -> "ALI GCP deployment requires GCP credentials"
      [] chain = "shared_gcp" -> "Shared GCP deployment requires GCP credentials"

\* Catalog with a group enabled only when its provider is selected.
CatalogOfSelected ==
    [aws |-> [arc |-> [enabled |-> cloud_provider \in {"aws", "both"} /\ deploy_arc],
              ali |-> [enabled |-> cloud_provider \in {"aws", "both"} /\ deploy_ali]],
     gcp |-> [arc |-> [enabled |-> cloud_provider \in {"gcp", "both"} /\ deploy_arc_gcp],
              ali |-> [enabled |-> cloud_provider \in {"gcp", "both"} /\ deploy_ali_gcp]]]

\* Catalog with the ali entry of aws reading the arc flag.
CatalogArcTwice ==
    [aws |-> [arc |-> [enabled |-> deploy_arc],
              ali |-> [enabled |-> deploy_arc]],
     gcp |-> [arc |-> [enabled |-> deploy_arc_gcp],
              ali |-> [enabled |-> deploy_ali_gcp]]]

\* The `enabled` entries of the infrastructure_components dict (the
\* component lists are fixed text).
Catalog ==
    [aws |-> [arc |-> [enabled |-> deploy_arc],
              ali |-> [enabled |-> deploy_ali]],
     gcp |-> [arc |-> [enabled |-> deploy_arc_gcp],
              ali |-> [enabled |-> deploy_ali_gcp]]]

MigrationStatusText == "Terraform to Pulumi migration completed with AWS and GCP support"
SummaryText == "PyTorch CI Infrastructure - Pulumi Migration Complete with Multi-Cloud Support"

\* GcpSelected written `cloud_provider == "gcp" or "both"`.
GcpSelectedTruthy == cloud_provider = "gcp" \/ "both" # ""

\* The provider gates.
AwsSelected == cloud_provider = "aws" \/ cloud_provider = "both"

GcpSelected == cloud_provider = "gcp" \/ cloud_provider = "both"

\* ChainEnabled with the shared GCP layer left out once a GCP chain failed.
ChainEnabledSharedIfHealthy(chain) ==
    CASE chain = "arc" -> AwsSelected /\ deploy_arc
      [] chain = "ali" -> AwsSelected /\ deploy_ali
      [] chain = "arc_gcp" -> GcpSelected /\ deploy_arc_gcp
      [] chain = "ali_gcp" -> GcpSelected /\ deploy_ali_gcp
      [] chain = "shared_gcp" ->
           /\ GcpSelected /\ (deploy_arc_gcp \/ deploy_ali_gcp)
           /\ loaded["arc_gcp"] # "failed" /\ loaded["ali_gcp"] # "failed"
           /\ \A l \in {"arc_infra_gcp", "arc_helm_gcp", "arc_argocd_gcp",
                         "ali_infra_gcp"} : status[l] # "failed"

\* ChainEnabled with the ARC chains also entered for their rollout flag.
ChainEnabledByRollout(chain) ==
    CASE chain = "arc" -> AwsSelected /\ (deploy_arc \/ deploy_argocd)
      [] chain = "ali" -> AwsSelected /\ deploy_ali
      [] chain = "arc_gcp" -> GcpSelected /\ (deploy_arc_gcp \/ deploy_argocd_gcp)
      [] chain = "ali_gcp" -> GcpSelected /\ deploy_ali_gcp
      [] chain = "shared_gcp" -> GcpSelected /\ (deploy_arc_gcp \/ deploy_ali_gcp)

\* ChainEnabled with the shared GCP layer deployed whenever GCP is selected.
ChainEnabledSharedAlways(chain) ==
    CASE chain = "arc" -> AwsSelected /\ deploy_arc
      [] chain = "ali" -> AwsSelected /\ deploy_ali
      [] chain = "arc_gcp" -> GcpSelected /\ deploy_arc_gcp
      [] chain = "ali_gcp" -> GcpSelected /\ deploy_ali_gcp
      [] chain = "shared_gcp" -> GcpSelected

\* The condition under which the script enters the try block of a chain.
ChainEnabled(chain) ==
    CASE chain = "arc" -> AwsSelected /\ deploy_arc
      [] chain = "ali" -> AwsSelected /\ deploy_ali
      [] chain = "arc_gcp" -> GcpSelected /\ deploy_arc_gcp
      [] chain = "ali_gcp" -> GcpSelected /\ deploy_ali_gcp
      [] chain = "shared_gcp" -> GcpSelected /\ (deploy_arc_gcp \/ deploy_ali_gcp)

\* The keys a layer reads from the Layer Output it is given.
InputKeys(layer) ==
    CASE layer = "arc_helm" ->
           {"eks_cluster", "eks_cluster_name", "eks_cluster_endpoint",
            "eks_cluster_certificate_authority", "eks_oidc_provider", "vpc_id"}
      [] layer = "arc_argocd" -> {"k8s_provider", "argocd_namespace"}
      [] layer = "arc_helm_gcp" ->
           {"gke_cluster", "gke_cluster_name", "gke_cluster_endpoint",
            "gke_cluster_ca_certificate", "kubeconfig", "gcp_project"}
      [] layer = "arc_argocd_gcp" -> {"k8s_provider", "argocd_namespace"}
      [] OTHER -> {}

\* The outcomes of layer.deploy(input): a missing input key is a KeyError
\* before any declaration.
CallOutcomes(layer, input) ==
    IF InputKeys(layer) \subseteq DOMAIN input
    THEN Outcomes(layer)
    ELSE {[raised |-> TRUE, n |-> 0]}

(***************************************************************************)
(* The top-level script                                                    *)
(***************************************************************************)
flagVars == <<cloud_provider, deploy_arc, deploy_ali, deploy_argocd,
              deploy_arc_gcp, deploy_ali_gcp, deploy_argocd_gcp>>
sinkVars == <<exports, published, republished>>
layerVars == <<status, declared, started, outputs>>

\* The state in which a run of the program starts.
FreshRun ==
    /\ pc = "config"
    /\ cloud_provider = ""
    /\ deploy_arc = FALSE /\ deploy_ali = FALSE /\ deploy_argocd = FALSE
    /\ deploy_arc_gcp = FALSE /\ deploy_ali_gcp = FALSE
    /\ deploy_argocd_gcp = FALSE
    /\ exports = EmptyMap
    /\ published = {}
    /\ republished = {}
    /\ status = [l \in Layers |-> "not_started"]
    /\ declared = [l \in Layers |-> 0]
    /\ loaded = [c \in Chains |-> "no"]
    /\ attempted = {}
    /\ started = << >>
    /\ outputs = [l \in Layers |-> EmptyMap]
    /\ resolution = [l \in Layers |-> "pending"]

Init ==
    /\ config \in Configs
    /\ backend = HomeBackend
    /\ previous = << >>
    /\ FreshRun

\* The block of the script that follows the block of a chain.
NextBlock(chain) ==
    CASE chain = "arc" -> "ali"
      [] chain = "ali" -> "arc_gcp"
      [] chain = "arc_gcp" -> "ali_gcp"
      [] chain = "ali_gcp" -> "shared_gcp"
      [] chain = "shared_gcp" -> "summary"

\* Lines 21-34: the configuration is read.  get_bool raises on a value that
\* is not a boolean, outside every try block.
ReadConfig ==
    /\ pc = "config"
    /\ IF WellTyped(config)
       THEN /\ cloud_provider' = GetOr(config.cloud_provider, "aws")
            /\ deploy_arc' = GetBoolOrFalse(config.deploy_arc)
            /\ deploy_ali' = GetBoolOrFalse(config.deploy_ali)
            /\ deploy_argocd' = GetBoolOrFalse(config.deploy_argocd)
            /\ deploy_arc_gcp' = GetBoolOrFalse(config.deploy_arc_gcp)
            /\ deploy_ali_gcp' = GetBoolOrFalse(config.deploy_ali_gcp)
            /\ deploy_argocd_gcp' = GetBoolOrFalse(config.deploy_argocd_gcp)
            /\ pc' = "header"
       ELSE /\ pc' = "fatal"
            /\ UNCHANGED flagVars
    /\ UNCHANGED <<config, backend, previous, resolution, sinkVars, layerVars, loaded, attempted>>

\* ExportHeader without the export of cloud_provider.
ExportHeaderWithoutProvider ==
    /\ pc = "header"
    /\ SetSink(Export(Export(Sink,
                 Main, Main, "migration_status", MigrationStatusText),
                 Main, Main, "infrastructure_components", Catalog))
    /\ pc' = "arc"
    /\ UNCHANGED <<config, backend, previous, resolution, flagVars, layerVars, loaded, attempted>>

\* Lines 37-104: migration_status, cloud_provider and the catalog.
ExportHeader ==
    /\ pc = "header"
    /\ SetSink(Export(Export(Export(Sink,
                 Main, Main, "migration_status", MigrationStatusText),
                 Main, Main, "cloud_provider", cloud_provider),
                 Main, Main, "infrastructure_components", Catalog))
    /\ pc' = "arc"
    /\ UNCHANGED <<config, backend, previous, resolution, flagVars, layerVars, loaded, attempted>>

\* Recover without a try block: the exception ends the script.
RecoverRaise(chain) ==
    /\ pc' = "fatal"
    /\ UNCHANGED sinkVars

\* Recover with `except Exception: pass`.
RecoverSilently(chain) ==
    /\ pc' = NextBlock(chain)
    /\ UNCHANGED sinkVars

\* Recover with one try block per layer: the script goes on with the next
\* layer of the chain.
RecoverPerLayer(chain) ==
    /\ SetSink(Export(Sink, chain, Main, NoteKey(chain), NoteText(chain)))
    /\ pc' = CASE pc = "arc_infra" -> "arc_helm"
               [] pc = "arc_helm" -> "arc_argocd"
               [] pc = "arc_infra_gcp" -> "arc_helm_gcp"
               [] pc = "arc_helm_gcp" -> "arc_argocd_gcp"
               [] OTHER -> NextBlock(chain)

\* The except block of a chain: the note is exported and the script goes
\* on with the next block.
Recover(chain) ==
    /\ SetSink(Export(Sink, chain, Main, NoteKey(chain), NoteText(chain)))
    /\ pc' = NextBlock(chain)

\* A chain whose condition is false is passed over.
SkipChain(chain) ==
    /\ pc = chain
    /\ ~ChainEnabled(chain)
    /\ pc' = NextBlock(chain)
    /\ UNCHANGED <<config, backend, previous, resolution, flagVars, sinkVars, layerVars, loaded, attempted>>

\* LoadChain with each import in a try block of its own: the script notes
\* the failure and goes on to the first layer.
LoadChainGoesOn(chain, first) ==
    /\ pc = chain
    /\ ChainEnabled(chain)
    /\ attempted' = attempted \cup {chain}
    /\ \E ok \in BOOLEAN :
         IF ok
         THEN /\ loaded' = [loaded EXCEPT ![chain] = "ok"]
              /\ pc' = first
              /\ UNCHANGED sinkVars
         ELSE /\ loaded' = [loaded EXCEPT ![chain] = "failed"]
              /\ SetSink(Export(Sink, chain, Main, NoteKey(chain), NoteText(chain)))
              /\ pc' = first
    /\ UNCHANGED <<config, backend, previous, resolution, flagVars, layerVars>>

\* LoadChain with the import statements above the try block.
LoadChainOutsideTry(chain, first) ==
    /\ pc = chain
    /\ ChainEnabled(chain)
    /\ attempted' = attempted \cup {chain}
    /\ \E ok \in BOOLEAN :
         IF ok
         THEN /\ loaded' = [loaded EXCEPT ![chain] = "ok"]
              /\ pc' = first
         ELSE /\ loaded' = [loaded EXCEPT ![chain] = "failed"]
              /\ pc' = "fatal"
    /\ UNCHANGED <<config, backend, previous, resolution, flagVars, sinkVars, layerVars>>

\* The import statements at the head of a chain's try block.
LoadChain(chain, first) ==
    /\ pc = chain
    /\ ChainEnabled(chain)
    /\ attempted' = attempted \cup {chain}
    /\ \E ok \in BOOLEAN :
         IF ok
         THEN /\ loaded' = [loaded EXCEPT ![chain] = "ok"]
              /\ pc' = first
              /\ UNCHANGED sinkVars
         ELSE /\ loaded' = [loaded EXCEPT ![chain] = "failed"]
              /\ Recover(chain)
    /\ UNCHANGED <<config, backend, previous, resolution, flagVars, layerVars>>

\* RunLayer with each result exported next to the declaration it reports.
RunLayerExportsEarly(layer, input, next) ==
    /\ pc = layer
    /\ started' = Append(started, layer)
    /\ \E o \in CallOutcomes(layer, input) :
         /\ declared' = [declared EXCEPT ![layer] = o.n]
         /\ IF o.raised
            THEN /\ status' = [status EXCEPT ![layer] = "failed"]
                 /\ outputs' = outputs
                 /\ SetSink(Export(ExportAll(Sink, ChainOf(layer), layer,
                                             IF o.n > 0
                                             THEN SubSeq(LayerExports(layer), 1, 1)
                                             ELSE << >>),
                                   ChainOf(layer), Main,
                                   NoteKey(ChainOf(layer)),
                                   NoteText(ChainOf(layer))))
                 /\ pc' = NextBlock(ChainOf(layer))
            ELSE /\ status' = [status EXCEPT ![layer] = "done"]
                 /\ outputs' = [outputs EXCEPT ![layer] = LayerOutput(layer, input)]
                 /\ SetSink(Export(ExportAll(Sink, ChainOf(layer), layer,
                                             LayerExports(layer)),
                                   ChainOf(layer), Main, DeployedKey(layer), PyTrue))
                 /\ pc' = next
    /\ UNCHANGED <<config, backend, previous, resolution, flagVars, loaded, attempted>>

\* RunLayer with the flag exported ahead of the call.
RunLayerFlagFirst(layer, input, next) ==
    /\ pc = layer
    /\ started' = Append(started, layer)
    /\ \E o \in CallOutcomes(layer, input) :
         /\ declared' = [declared EXCEPT ![layer] = o.n]
         /\ IF o.raised
            THEN /\ status' = [status EXCEPT ![layer] = "failed"]
                 /\ outputs' = outputs
                 /\ SetSink(Export(Export(Sink, ChainOf(layer), Main,
                                          DeployedKey(layer), PyTrue),
                                   ChainOf(layer), Main,
                                   NoteKey(ChainOf(layer)),
                                   NoteText(ChainOf(layer))))
                 /\ pc' = NextBlock(ChainOf(layer))
            ELSE /\ status' = [status EXCEPT ![layer] = "done"]
                 /\ outputs' = [outputs EXCEPT ![layer] = LayerOutput(layer, input)]
                 /\ SetSink(ExportAll(Export(Sink, ChainOf(layer), Main,
                                             DeployedKey(layer), PyTrue),
                                      ChainOf(layer), layer, LayerExports(layer)))
                 /\ pc' = next
    /\ UNCHANGED <<config, backend, previous, resolution, flagVars, loaded, attempted>>

\* RunLayer with the except block destroying what the chain declared.
RunLayerRollback(layer, input, next) ==
    /\ pc = layer
    /\ started' = Append(started, layer)
    /\ \E o \in CallOutcomes(layer, input) :
         IF o.raised
         THEN /\ declared' = [m \in Layers |->
                                IF ChainOf(m) = ChainOf(layer) THEN 0
                                ELSE declared[m]]
              /\ status' = [status EXCEPT ![layer] = "failed"]
              /\ outputs' = outputs
              /\ Recover(ChainOf(layer))
         ELSE /\ declared' = [declared EXCEPT ![layer] = o.n]
              /\ status' = [status EXCEPT ![layer] = "done"]
              /\ outputs' = [outputs EXCEPT ![layer] = LayerOutput(layer, input)]
              /\ SetSink(Export(ExportAll(Sink, ChainOf(layer), layer,
                                          LayerExports(layer)),
                                ChainOf(layer), Main, DeployedKey(layer), PyTrue))
              /\ pc' = next
    /\ UNCHANGED <<config, backend, previous, resolution, flagVars, loaded, attempted>>

\* outputs = layer.deploy(input); pulumi.export(<flag>, True)
RunLayer(layer, input, next) ==
    /\ pc = layer
    /\ started' = Append(started, layer)
    /\ \E o \in CallOutcomes(layer, input) :
         /\ declared' = [declared EXCEPT ![layer] = o.n]
         /\ IF o.raised
            THEN /\ status' = [status EXCEPT ![layer] = "failed"]
                 /\ outputs' = outputs
                 /\ Recover(ChainOf(layer))
            ELSE /\ status' = [status EXCEPT ![layer] = "done"]
                 /\ outputs' = [outputs EXCEPT ![layer] = LayerOutput(layer, input)]
                 /\ SetSink(Export(ExportAll(Sink, ChainOf(layer), layer,
                                             LayerExports(layer)),
                                   ChainOf(layer), Main, DeployedKey(layer), PyTrue))
                 /\ pc' = next
    /\ UNCHANGED <<config, backend, previous, resolution, flagVars, loaded, attempted>>

\* An optional layer whose flag is false.
SkipLayer(layer, flag) ==
    /\ pc = layer
    /\ ~flag
    /\ pc' = NextBlock(ChainOf(layer))
    /\ UNCHANGED <<config, backend, previous, resolution, flagVars, sinkVars, layerVars, loaded, attempted>>

\* AWS ARC chain, lines 108-128
ArcSkip == SkipChain("arc")
ArcLoad == LoadChain("arc", "arc_infra")
ArcInfraDeploy == RunLayer("arc_infra", EmptyMap, "arc_helm")
ArcHelmDeploy == RunLayer("arc_helm", outputs["arc_infra"], "arc_argocd")
ArcArgocdDeploy ==
    /\ deploy_argocd
    /\ RunLayer("arc_argocd", outputs["arc_helm"], NextBlock("arc"))
ArcArgocdSkip == SkipLayer("arc_argocd", deploy_argocd)

\* AWS ALI chain, lines 130-139
AliSkip == SkipChain("ali")
AliLoad == LoadChain("ali", "ali_infra")
AliInfraDeploy == RunLayer("ali_infra", EmptyMap, NextBlock("ali"))

\* GCP ARC chain, lines 143-163
ArcGcpSkip == SkipChain("arc_gcp")
ArcGcpLoad == LoadChain("arc_gcp", "arc_infra_gcp")
ArcInfraGcpDeploy == RunLayer("arc_infra_gcp", EmptyMap, "arc_helm_gcp")
ArcHelmGcpDeploy == RunLayer("arc_helm_gcp", outputs["arc_infra_gcp"], "arc_argocd_gcp")
ArcArgocdGcpDeploy ==
    /\ deploy_argocd_gcp
    /\ RunLayer("arc_argocd_gcp", outputs["arc_helm_gcp"], NextBlock("arc_gcp"))
ArcArgocdGcpSkip == SkipLayer("arc_argocd_gcp", deploy_argocd_gcp)

\* GCP ALI chain, lines 165-174
AliGcpSkip == SkipChain("ali_gcp")
AliGcpLoad == LoadChain("ali_gcp", "ali_infra_gcp")
AliInfraGcpDeploy == RunLayer("ali_infra_gcp", EmptyMap, NextBlock("ali_gcp"))

\* Shared GCP chain, lines 177-186
SharedGcpSkip == SkipChain("shared_gcp")
SharedGcpLoad == LoadChain("shared_gcp", "backend_state_gcp")
BackendStateGcpDeploy == RunLayer("backend_state_gcp", EmptyMap, NextBlock("shared_gcp"))

\* Line 234
ExportSummary ==
    /\ pc = "summary"
    /\ SetSink(Export(Sink, Main, Main, "summary", SummaryText))
    /\ pc' = "done"
    /\ UNCHANGED <<config, backend, previous, resolution, flagVars, layerVars, loaded, attempted>>

Next ==
    \/ ReadConfig
    \/ ExportHeader
    \/ ArcSkip
    \/ ArcLoad
    \/ ArcInfraDeploy
    \/ ArcHelmDeploy
    \/ ArcArgocdDeploy
    \/ ArcArgocdSkip
    \/ AliSkip
    \/ AliLoad
    \/ AliInfraDeploy
    \/ ArcGcpSkip
    \/ ArcGcpLoad
    \/ ArcInfraGcpDeploy
    \/ ArcHelmGcpDeploy
    \/ ArcArgocdGcpDeploy
    \/ ArcArgocdGcpSkip
    \/ AliGcpSkip
    \/ AliGcpLoad
    \/ AliInfraGcpDeploy
    \/ SharedGcpSkip
    \/ SharedGcpLoad
    \/ BackendStateGcpDeploy
    \/ ExportSummary

Spec == Init /\ [][Next]_vars

TypeOK ==
    /\ pc \in {"config", "header", "fatal", "chains", "summary", "done"}
          \cup Chains \cup Layers
    /\ status \in [Layers -> {"not_started", "done", "failed"}]
    /\ loaded \in [Chains -> {"no", "ok", "failed"}]
    /\ attempted \subseteq Chains
    /\ resolution \in [Layers -> {"pending", "resolved", "failed"}]

(***************************************************************************)
(* Observations used by the properties                                     *)
(***************************************************************************)
Invoked(layer) == \E i \in 1 .. Len(started) : started[i] = layer

PositionOf(layer) == CHOOSE i \in 1 .. Len(started) : started[i] = layer

\* The resources a layer has declared so far.
DeclaredBy(layer) == {LayerResources(layer)[i] : i \in 1 .. declared[layer]}

NothingDeclared == \A l \in Layers : declared[l] = 0

\* The keys published while the script was inside a chain.
KeysOf(chain) == {p[3] : p \in {q \in published : q[1] = chain}}

AwsKeys == UNION {KeysOf(c) : c \in AwsChains}
GcpKeys == UNION {KeysOf(c) : c \in GcpChains}

ItemKeys(items) == {items[i][1] : i \in 1 .. Len(items)}

\* Every <<key, value>> pair of items is in the export namespace.
Holds(items) ==
    \A i \in 1 .. Len(items) :
        /\ items[i][1] \in DOMAIN exports
        /\ exports[items[i][1]] = items[i][2]

ChainFailed(chain) ==
    \/ loaded[chain] = "failed"
    \/ \E l \in LayersOf(chain) : status[l] = "failed"

NoFailure == \A c \in Chains : ~ChainFailed(c)

Terminated == pc \in {"done", "fatal"}

\* The raw configuration has every deploy flag false or absent.
AllDisabled ==
    \A k \in FlagKeys : config[k] \in {Absent, "false"}

StaticKeys == {"migration_status", "cloud_provider",
               "infrastructure_components", "summary"}

(***************************************************************************)
(* C1                                                                      *)
(***************************************************************************)
\* What a chain exports, from the fate of its own layers alone: the result
\* keys and the flag of each of its layers that returned, and its note if
\* its imports or one of its layers raised.
OrderedLayers(chain) ==
    CASE chain = "arc" -> <<"arc_infra", "arc_helm", "arc_argocd">>
      [] chain = "ali" -> <<"ali_infra">>
      [] chain = "arc_gcp" -> <<"arc_infra_gcp", "arc_helm_gcp", "arc_argocd_gcp">>
      [] chain = "ali_gcp" -> <<"ali_infra_gcp">>
      [] chain = "shared_gcp" -> <<"backend_state_gcp">>

RECURSIVE DoneItems(_)
DoneItems(layers) ==
    IF layers = << >> THEN << >>
    ELSE (IF status[Head(layers)] = "done"
          THEN LayerExports(Head(layers))
               \o << <<DeployedKey(Head(layers)), PyTrue>> >>
          ELSE << >>)
         \o DoneItems(Tail(layers))

OwnExports(chain) ==
    DictUpdate(EmptyMap,
               DoneItems(OrderedLayers(chain))
               \o (IF ChainFailed(chain)
                   THEN << <<NoteKey(chain), NoteText(chain)>> >>
                   ELSE << >>))

\* C1: when the run has ended, every chain whose condition holds was
\* attempted, and the keys and values it exported are those its own layers
\* account for, whatever happened in the other chains.
C1_ChainIsolation ==
    Terminated =>
        \A c \in Chains :
            ChainEnabled(c) =>
                /\ c \in attempted
                /\ LET own == OwnExports(c)
                   IN  /\ KeysOf(c) = DOMAIN own
                       /\ \A k \in DOMAIN own :
                              k \in DOMAIN exports /\ exports[k] = own[k]

C1_Witness ==
    /\ pc = "done"
    /\ status["arc_infra"] = "done"
    /\ loaded["ali"] = "failed"
    /\ status["arc_helm_gcp"] = "failed"
    /\ status["ali_infra_gcp"] = "done"
    /\ status["backend_state_gcp"] = "done"

(***************************************************************************)
(* C2                                                                      *)
(***************************************************************************)
\* The stem <provider>_<layer> of a layer's keys: the success flag of the
\* layer is <stem>_deployed.
Stems == {"arc_infrastructure", "arc_helm", "arc_argocd", "ali_infrastructure",
          "arc_gcp_infrastructure", "arc_gcp_helm", "arc_gcp_argocd",
          "ali_gcp_infrastructure", "shared_gcp_infrastructure"}

LayerStem(layer) == CHOOSE st \in Stems : st \o "_deployed" = DeployedKey(layer)

\* The exports of the layers of a chain that returned are all in place.
CompletedExportsIntact(chain) ==
    \A l \in LayersOf(chain) :
        status[l] = "done" =>
            /\ Holds(LayerExports(l))
            /\ Holds(<< <<LayerStem(l) \o "_deployed", PyTrue>> >>)

\* C2 as stated: after a layer raised, its <provider>_<layer>_deployed flag
\* is absent, a <provider>_<layer>_deployment_note of that layer is
\* exported, and the exports of the completed layers are unchanged.
C2_LayerNoteExported ==
    \A l \in Layers :
        status[l] = "failed" =>
            /\ (LayerStem(l) \o "_deployed") \notin DOMAIN exports
            /\ (LayerStem(l) \o "_deployment_note") \in DOMAIN exports
            /\ CompletedExportsIntact(ChainOf(l))

\* The note keys the script has, one per chain.
ChainNoteKey(chain) == chain \o "_deployment_note"

\* C2 amended: after a layer raised, its <provider>_<layer>_deployed flag
\* is absent, the deployment note of the layer's chain (one key per chain:
\* arc_, ali_, arc_gcp_, ali_gcp_, shared_gcp_deployment_note) is exported,
\* and the exports of the completed layers of the chain are unchanged.
C2_ChainNoteExported ==
    \A l \in Layers :
        status[l] = "failed" =>
            /\ (LayerStem(l) \o "_deployed") \notin DOMAIN exports
            /\ ChainNoteKey(ChainOf(l)) \in DOMAIN exports
            /\ CompletedExportsIntact(ChainOf(l))

C2_Witness ==
    /\ status["arc_infra"] = "done"
    /\ status["arc_helm"] = "failed"
    /\ declared["arc_helm"] = 5
    /\ status["arc_infra_gcp"] = "done"
    /\ status["arc_helm_gcp"] = "done"
    /\ status["arc_argocd_gcp"] = "failed"
    /\ pc = "done"

(***************************************************************************)
(* C3                                                                      *)
(***************************************************************************)
RolloutKeysAws == {"arc_argocd_deployed", "arc_runner_namespaces",
                   "arc_application_set_created"}
RolloutKeysGcp == {"arc_gcp_argocd_deployed", "arc_gcp_argocd_argocd_apps",
                   "arc_gcp_argocd_app_project",
                   "arc_gcp_argocd_runners_namespace",
                   "arc_gcp_argocd_runner_config_map",
                   "arc_gcp_argocd_runner_configs"}

RolloutTrace(layer, keys) ==
    \/ Invoked(layer)
    \/ declared[layer] > 0
    \/ keys \cap DOMAIN exports # {}

\* C3: the rollout layer of a provider is invoked, declares a resource or
\* has one of its exports published only if its own flag and the flag of
\* its parent are both true.
C3_RolloutNeedsParent ==
    /\ RolloutTrace("arc_argocd", RolloutKeysAws) =>
           (config["deploy_argocd"] = "true" /\ config["deploy_arc"] = "true")
    /\ RolloutTrace("arc_argocd_gcp", RolloutKeysGcp) =>
           (config["deploy_argocd_gcp"] = "true" /\ config["deploy_arc_gcp"] = "true")

C3_Witness ==
    /\ pc = "done"
    /\ cloud_provider = "both"
    /\ config["deploy_argocd"] = "true" /\ config["deploy_arc"] # "true"
    /\ config["deploy_argocd_gcp"] = "true" /\ config["deploy_arc_gcp"] # "true"
    /\ status["ali_infra"] = "done"
    /\ status["backend_state_gcp"] = "done"

(***************************************************************************)
(* C4                                                                      *)
(***************************************************************************)
\* `later` was called only after `earlier` had returned.
StartsAfterReturn(earlier, later) ==
    Invoked(later) =>
        /\ status[earlier] = "done"
        /\ PositionOf(earlier) < PositionOf(later)

\* C4: in the ARC chain of each provider the bootstrap layer is called only
\* after the base layer returned and the rollout layer only after the
\* bootstrap layer returned; after a failed import or a failed layer no
\* further layer of the chain is called.
C4_LayerOrder ==
    /\ StartsAfterReturn("arc_infra", "arc_helm")
    /\ StartsAfterReturn("arc_helm", "arc_argocd")
    /\ StartsAfterReturn("arc_infra_gcp", "arc_helm_gcp")
    /\ StartsAfterReturn("arc_helm_gcp", "arc_argocd_gcp")
    /\ \A c \in Chains :
           /\ loaded[c] = "failed" => \A l \in LayersOf(c) : ~Invoked(l)
           /\ c \in attempted \/ \A l \in LayersOf(c) : ~Invoked(l)
           /\ \A l \in LayersOf(c) :
                  status[l] = "failed" =>
                      \A m \in LayersOf(c) :
                          Invoked(m) => PositionOf(m) <= PositionOf(l)

C4_Witness ==
    /\ pc = "done"
    /\ deploy_argocd /\ deploy_argocd_gcp
    /\ status["arc_infra"] = "done"
    /\ status["arc_helm"] = "failed"
    /\ ~Invoked("arc_argocd")
    /\ status["arc_argocd_gcp"] = "done"

(***************************************************************************)
(* C5                                                                      *)
(***************************************************************************)
UnknownProvider == config["cloud_provider"] \notin {Absent, "aws", "gcp", "both"}

\* C5: with a cloud_provider outside {aws, gcp, both} the run ends with a
\* fatal configuration error before any declaration: it never runs to its
\* end.
C5_UnknownProviderIsFatal ==
    UnknownProvider => pc # "done"

(***************************************************************************)
(* C6                                                                      *)
(***************************************************************************)
\* Every key a chain can export.
KeyUniverse(chain) ==
    {ChainNoteKey(chain)}
    \cup UNION {ItemKeys(LayerExports(l)) \cup {LayerStem(l) \o "_deployed"} :
                  l \in LayersOf(chain)}

\* Nothing of a chain outside `chains` has happened.
OnlyChains(chains) ==
    /\ attempted \subseteq chains
    /\ \A l \in Layers : ChainOf(l) \notin chains => ~Invoked(l) /\ declared[l] = 0
    /\ \A q \in published : q[1] \in chains \cup {Main}
    /\ \A c \in Chains \ chains : KeyUniverse(c) \cap DOMAIN exports = {}

\* The deploy flag that guards a chain, as configured.
Configured(chain) ==
    CASE chain = "arc" -> config["deploy_arc"] = "true"
      [] chain = "ali" -> config["deploy_ali"] = "true"
      [] chain = "arc_gcp" -> config["deploy_arc_gcp"] = "true"
      [] chain = "ali_gcp" -> config["deploy_ali_gcp"] = "true"
      [] chain = "shared_gcp" -> config["deploy_arc_gcp"] = "true"
                                 \/ config["deploy_ali_gcp"] = "true"

ChainsFor(provider) ==
    CASE provider = "aws" -> AwsChains
      [] provider = "gcp" -> GcpChains
      [] provider = "both" -> Chains
      [] OTHER -> {}

\* C6: with aws nothing of a GCP chain happens and no GCP key is exported,
\* with gcp nothing of an AWS chain; at the end of the run the chains
\* attempted are the configured chains of the selected provider(s).
C6_ProviderSelectsChains ==
    /\ cloud_provider = "aws" => OnlyChains(AwsChains)
    /\ cloud_provider = "gcp" => OnlyChains(GcpChains)
    /\ pc = "done" =>
           attempted = {c \in ChainsFor(cloud_provider) : Configured(c)}

C6_Witness ==
    /\ pc = "done"
    /\ cloud_provider = "aws"
    /\ config["deploy_arc_gcp"] = "true"
    /\ config["deploy_ali_gcp"] = "true"
    /\ config["deploy_argocd_gcp"] = "true"
    /\ status["arc_argocd"] = "done"
    /\ status["ali_infra"] = "done"

(***************************************************************************)
(* C7                                                                      *)
(***************************************************************************)
\* C7: with cloud_provider = both, no key is exported both by an AWS chain
\* and by a GCP chain.
C7_ProviderKeysDisjoint ==
    cloud_provider = "both" => AwsKeys \cap GcpKeys = {}

C7_Witness ==
    /\ pc = "done"
    /\ cloud_provider = "both"
    /\ status["arc_argocd"] = "done"
    /\ status["ali_infra"] = "failed"
    /\ status["arc_argocd_gcp"] = "done"
    /\ status["ali_infra_gcp"] = "done"
    /\ status["backend_state_gcp"] = "failed"

BothAllDisabledDone ==
    /\ pc = "done"
    /\ config["cloud_provider"] = "both"
    /\ AllDisabled

\* C9 as stated: with cloud_provider = both and all deploy flags false the
\* exported keys are exactly infrastructure_components, migration_status
\* and summary.
C9_ThreeKeys ==
    BothAllDisabledDone =>
        DOMAIN exports = {"infrastructure_components", "migration_status", "summary"}

\* C9 amended: the exported keys are exactly infrastructure_components,
\* migration_status, summary and cloud_provider (whose value is "both").
C9_FourKeys ==
    BothAllDisabledDone =>
        /\ DOMAIN exports = {"infrastructure_components", "migration_status",
                             "summary", "cloud_provider"}
        /\ exports["cloud_provider"] = "both"

C9_Witness ==
    /\ BothAllDisabledDone
    /\ Cardinality(DOMAIN exports) = 4

(***************************************************************************)
(* C10                                                                     *)
(***************************************************************************)
ArcOnlyScenario ==
    /\ pc = "done"
    /\ config["cloud_provider"] = "aws"
    /\ config["deploy_arc"] = "true"
    /\ config["deploy_ali"] = "false"
    /\ NoFailure

\* C10: cloud_provider = aws, deploy_arc = true, deploy_ali = false and no
\* failure: arc_infrastructure_deployed and arc_helm_deployed are exported
\* as true, ali_infrastructure_deployed is not exported, and the catalog
\* has aws.ali.enabled = false.
C10_ArcOnlyExports ==
    ArcOnlyScenario =>
        /\ Holds(<< <<"arc_infrastructure_deployed", PyTrue>>,
                    <<"arc_helm_deployed", PyTrue>> >>)
        /\ "ali_infrastructure_deployed" \notin DOMAIN exports
        /\ exports["infrastructure_components"].aws.ali.enabled = FALSE
        /\ exports["infrastructure_components"].aws.arc.enabled = TRUE

C10_Witness ==
    /\ ArcOnlyScenario
    /\ status["arc_helm"] = "done"
    /\ "arc_infrastructure_deployed" \in DOMAIN exports

(***************************************************************************)
(* C11                                                                     *)
(***************************************************************************)
\* The end of a run: the summary is exported and every chain that was cut
\* short has its deployment note.
RanToEnd ==
    /\ pc = "done"
    /\ "summary" \in DOMAIN exports
    /\ \A c \in Chains : ChainFailed(c) => ChainNoteKey(c) \in DOMAIN exports

\* The statements of the script in their textual order.
ScriptOrder == <<"config", "header",
                 "arc", "arc_infra", "arc_helm", "arc_argocd",
                 "ali", "ali_infra",
                 "arc_gcp", "arc_infra_gcp", "arc_helm_gcp", "arc_argocd_gcp",
                 "ali_gcp", "ali_infra_gcp",
                 "shared_gcp", "backend_state_gcp",
                 "summary", "done", "fatal">>

PlaceOf(p) == CHOOSE i \in 1 .. Len(ScriptOrder) : ScriptOrder[i] = p

\* The Layer Output the script passes to a layer.
InputOf(layer) ==
    CASE layer = "arc_helm" -> outputs["arc_infra"]
      [] layer = "arc_argocd" -> outputs["arc_helm"]
      [] layer = "arc_helm_gcp" -> outputs["arc_infra_gcp"]
      [] layer = "arc_argocd_gcp" -> outputs["arc_helm_gcp"]
      [] OTHER -> EmptyMap

\* The script has a statement to execute: at a chain it enters the try
\* block or passes it over, at a layer the call has an outcome (the
\* optional layers are called or passed over).
CanStep ==
    \/ pc \in {"config", "header", "summary"}
    \/ pc \in Chains
    \/ pc \in Layers /\ CallOutcomes(pc, InputOf(pc)) # {}

\* With a well-typed configuration the script never ends in an error, it
\* has a statement to execute until it is done, and when it is done it ran
\* to its end.
NeverStuck ==
    WellTyped(config) =>
        /\ pc # "fatal"
        /\ pc # "done" => CanStep
        /\ pc = "done" => RanToEnd

\* C11: with a well-typed configuration, whatever the layers and the
\* imports raise, the run reaches its end, where the summary is exported
\* and every chain cut short by a failure has a deployment note: the script
\* is never stuck before its end and every step moves it forward in the
\* script, so that it is done after at most Len(ScriptOrder) steps.
C11_RunsToEnd ==
    /\ []NeverStuck
    /\ [][PlaceOf(pc') > PlaceOf(pc)]_vars

C11_Witness ==
    /\ RanToEnd
    /\ loaded["arc"] = "failed"
    /\ status["ali_infra"] = "failed"
    /\ status["arc_helm_gcp"] = "failed"
    /\ loaded["ali_gcp"] = "failed"
    /\ status["backend_state_gcp"] = "failed"


(***************************************************************************)
(* C12                                                                     *)
(***************************************************************************)
\* The configuration key a layer requires: aws:region by the AWS base
\* layers, gcp:project by the GCP base layers and the shared GCP layer.
NeedsRegion == {"arc_infra", "ali_infra"}
NeedsProject == {"arc_infra_gcp", "ali_infra_gcp", "backend_state_gcp"}

KeyMissingFor(layer) ==
    \/ layer \in NeedsRegion /\ config["aws_region"] = Absent
    \/ layer \in NeedsProject /\ config["gcp_project"] = Absent

C13_ConfigErrorRaises ==
    /\ \A l \in Layers :
           (Invoked(l) /\ KeyMissingFor(l)) =>
               /\ pc = "fatal"
               /\ ChainNoteKey(ChainOf(l)) \notin DOMAIN exports
    /\ (WellTyped(config) /\ \A l \in Layers : ~(Invoked(l) /\ KeyMissingFor(l)))
           => pc # "fatal"


(***************************************************************************)
(* C14                                                                     *)
(***************************************************************************)
\* The names by which a key can identify the provider of a layer and the
\* layer itself.
ProviderIds(layer) ==
    IF ChainOf(layer) \in AwsChains
    THEN {"aws", ChainOf(layer), "aws_" \o ChainOf(layer), ChainOf(layer) \o "_aws"}
    ELSE {"gcp", ChainOf(layer), "gcp_" \o ChainOf(layer)}

LayerIds(layer) ==
    {layer}
    \cup (CASE layer \in {"arc_infra", "ali_infra", "arc_infra_gcp", "ali_infra_gcp"} ->
                 {"infra", "infrastructure"}
            [] layer \in {"arc_helm", "arc_helm_gcp"} -> {"helm"}
            [] layer \in {"arc_argocd", "arc_argocd_gcp"} -> {"argocd"}
            [] layer = "backend_state_gcp" ->
                 {"infra", "infrastructure", "backend_state", "shared"})

QualifiedPrefixes(layer) ==
    {p \o "_" \o li \o "_" : p \in ProviderIds(layer), li \in LayerIds(layer)}

\* What follows the prefix of a result key of the AWS layers.
AwsResultTails(layer) ==
    CASE layer = "arc_infra" ->
           {"vpc_id", "eks_cluster_name", "eks_cluster_endpoint",
            "pytorch_ci_admins_role_arn"}
      [] layer = "arc_helm" ->
           {"argocd_namespace", "arc_namespace", "nginx_ingress_installed",
            "argocd_installed", "controller_installed"}
      [] layer = "arc_argocd" -> {"runner_namespaces", "application_set_created"}
      [] layer = "ali_infra" ->
           {"prod_vpc_ids", "canary_vpc_id", "ossci_gha_terraform_role_arn",
            "ecr_policy_arn"}

\* What follows the prefix of a result key of a layer: for the GCP layers a
\* key of the layer's outputs, alone or with a VPC suffix.
ResultTails(layer) ==
    IF ChainOf(layer) \in AwsChains
    THEN AwsResultTails(layer)
    ELSE LET keys == ItemKeys(OwnItemsWith(layer, HomeAccount))
         IN  keys \cup {k \o "_" \o sfx : k \in keys, sfx \in {"I", "II"}}

AllTails ==
    {"deployed", "deployment_note"} \cup UNION {ResultTails(l) : l \in Layers}

HasQualifiedPrefix(key, layer) ==
    \E pre \in QualifiedPrefixes(layer), t \in AllTails : key = pre \o t

\* The keys published for the chains in a run that has ended (`published`
\* only grows during a run).
PublishedInChains ==
    IF Terminated THEN {q \in published : q[1] \in Chains} ELSE {}

\* C14 as stated: every key published for a layer (results, flags, notes)
\* starts with a provider identifier and a layer identifier.
C14_ProviderLayerPrefix ==
    \A q \in PublishedInChains :
        \E l \in LayersOf(q[1]) :
            /\ q[2] \in {l, Main}
            /\ HasQualifiedPrefix(q[3], l)

\* The keys published by `layer` (or by the script itself, Main) inside
\* `chain`.
KeysBy(chain, layer) ==
    {q[3] : q \in {r \in published : r[1] = chain /\ r[2] = layer}}

\* The layer identifier the GCP bootstrap and rollout layers put into their
\* result keys.
LayerPart(layer) ==
    CASE layer = "arc_helm_gcp" -> "helm_"
      [] layer = "arc_argocd_gcp" -> "argocd_"
      [] OTHER -> ""

\* The keys the script itself publishes for a chain: the note and the
\* flags of its layers.
ChainKeys ==
    [c \in Chains |->
        {c \o "_deployment_note"}
        \cup {c \o "_" \o li \o "_deployed" :
                li \in {"infrastructure", "helm", "argocd"}}]

\* The keys a layer publishes for its results.
ResultKeys ==
    [l \in Layers |->
        {ChainOf(l) \o "_" \o LayerPart(l) \o t : t \in ResultTails(l)}]

\* C14 amended: every key published for a chain starts with the identifier
\* of the chain (arc_, ali_ on AWS; arc_gcp_, ali_gcp_, shared_gcp_ on GCP).
\* The flags are <chain>_<layer>_deployed, the note is
\* <chain>_deployment_note, and a result key is the chain identifier
\* followed by the result name, with a layer identifier in between only in
\* the GCP bootstrap and rollout layers.
C14_ChainPrefix ==
    Terminated =>
        /\ \A q \in PublishedInChains : q[2] = Main \/ ChainOf(q[2]) = q[1]
        /\ \A c \in Chains :
               LET keys == KeysBy(c, Main)
               IN  keys # {} => keys \subseteq ChainKeys[c]
        /\ \A l \in Layers :
               LET keys == KeysBy(ChainOf(l), l)
               IN  keys # {} => keys \subseteq ResultKeys[l]

C14_Witness ==
    /\ pc = "done"
    /\ status["arc_argocd"] = "done"
    /\ status["ali_infra"] = "failed"
    /\ status["arc_argocd_gcp"] = "done"
    /\ status["ali_infra_gcp"] = "done"
    /\ status["backend_state_gcp"] = "done"
    /\ {"arc_vpc_id", "ali_deployment_note", "arc_gcp_helm_argocd_namespace",
        "ali_gcp_prod_vpcs_II", "shared_gcp_state_bucket_name"} \subseteq DOMAIN exports


(***************************************************************************)
(* C15                                                                     *)
(***************************************************************************)
\* C15: no key is exported when it is already in the export namespace, and
\* every key ever published is in the namespace: the namespace only grows
\* and no entry is written twice.
C15_NoKeyTwice ==
    /\ republished = {}
    /\ DOMAIN exports = {q[3] : q \in published}

C15_Witness ==
    /\ pc = "done"
    /\ config["cloud_provider"] = "both"
    /\ \A k \in FlagKeys : config[k] = "true"
    /\ status["arc_argocd"] = "done"
    /\ status["ali_infra"] = "failed"
    /\ status["arc_argocd_gcp"] = "done"
    /\ loaded["ali_gcp"] = "failed"
    /\ status["backend_state_gcp"] = "done"


(***************************************************************************)
(* C16                                                                     *)
(***************************************************************************)
\* All the (kind, logical name) pairs declared so far in the run.
AllDeclared == UNION {DeclaredBy(l) : l \in Layers}

DeclarationCount ==
    declared["arc_infra"] + declared["arc_helm"] + declared["arc_argocd"]
    + declared["ali_infra"] + declared["arc_infra_gcp"]
    + declared["arc_helm_gcp"] + declared["arc_argocd_gcp"]
    + declared["ali_infra_gcp"] + declared["backend_state_gcp"]

\* C16: the declarations of one run are pairwise different (kind, logical
\* name) pairs, inside each layer and across all layers of both providers:
\* there are as many different pairs as there are declarations when the
\* run ends (declarations are only ever added).
C16_NoNameCollision ==
    Terminated => Cardinality(AllDeclared) = DeclarationCount

C16_Witness ==
    /\ pc = "done"
    /\ cloud_provider = "both"
    /\ \A l \in Layers : status[l] = "done"
    /\ \A l \in Layers : declared[l] = Len(LayerResources(l))


(***************************************************************************)
(* C18                                                                     *)
(***************************************************************************)
\* Two different layers of one chain that have both returned.
ReturnedPairs ==
    {p \in Layers \X Layers :
        /\ p[1] # p[2]
        /\ ChainOf(p[1]) = ChainOf(p[2])
        /\ status[p[1]] = "done" /\ status[p[2]] = "done"}

SharedKeys(p) == DOMAIN outputs[p[1]] \cap DOMAIN outputs[p[2]]

\* C18 as stated: no key is in the Layer Outputs of two different layers
\* of one chain.
C18_OutputKeysDistinct ==
    \A p \in ReturnedPairs : SharedKeys(p) = {}

\* C18 amended: in the GCP chains the Layer Outputs of different layers
\* have disjoint keys.  In the AWS ARC chain the bootstrap and rollout
\* layers return every key of their input next to their own keys, so a key
\* of an earlier layer is in the outputs of the later layers too, always
\* with the same value; the keys a layer adds are not keys of its input.
\* Stated of the end of a run: a Layer Output never changes once returned.
C18_OwnKeysDistinct ==
    Terminated =>
    /\ \A p \in ReturnedPairs :
           /\ ChainOf(p[1]) # "arc" => SharedKeys(p) = {}
           /\ \A k \in SharedKeys(p) : outputs[p[1]][k] = outputs[p[2]][k]
    /\ status["arc_helm"] = "done" =>
           /\ DOMAIN outputs["arc_infra"] \subseteq DOMAIN outputs["arc_helm"]
           /\ Cardinality(DOMAIN outputs["arc_helm"])
                  = Cardinality(DOMAIN outputs["arc_infra"]) + Len(OwnItems("arc_helm"))
    /\ status["arc_argocd"] = "done" =>
           /\ DOMAIN outputs["arc_helm"] \subseteq DOMAIN outputs["arc_argocd"]
           /\ Cardinality(DOMAIN outputs["arc_argocd"])
                  = Cardinality(DOMAIN outputs["arc_helm"]) + Len(OwnItems("arc_argocd"))

C18_Witness ==
    /\ pc = "done"
    /\ status["arc_argocd"] = "done"
    /\ status["arc_argocd_gcp"] = "done"
    /\ "vpc_id" \in DOMAIN outputs["arc_argocd"]
    /\ "gke_cluster_name" \notin DOMAIN outputs["arc_argocd_gcp"]

(***************************************************************************)
(* C19                                                                     *)
(***************************************************************************)
\* The input of `rollout` holds every key returned by `base` and every key
\* returned by `bootstrap`.
InputMerges(rollout, base, bootstrap) ==
    Invoked(rollout) =>
        /\ DOMAIN outputs[base] \subseteq DOMAIN InputOf(rollout)
        /\ DOMAIN outputs[bootstrap] \subseteq DOMAIN InputOf(rollout)

\* C19: for both providers the input of the rollout layer contains every
\* key returned by the base layer and every key returned by the bootstrap
\* layer.
C19_RolloutInputMerged ==
    /\ InputMerges("arc_argocd", "arc_infra", "arc_helm")
    /\ InputMerges("arc_argocd_gcp", "arc_infra_gcp", "arc_helm_gcp")


(***************************************************************************)
(* Two runs of the program with one configuration                          *)
(***************************************************************************)
\* The configurations that are run twice: one provider with its ARC chain
\* (with or without the rollout layer) or its ALI chain, the other
\* provider's flags false, region and project set.
RerunFlags ==
    {[deploy_arc |-> "true", deploy_ali |-> "false", deploy_argocd |-> "true"],
     [deploy_arc |-> "true", deploy_ali |-> "false", deploy_argocd |-> "false"],
     [deploy_arc |-> "false", deploy_ali |-> "true", deploy_argocd |-> "true"]}

RerunConfigs ==
    {cfg \in Configs :
        /\ cfg["aws_region"] # Absent /\ cfg["gcp_project"] # Absent
        /\ \/ /\ cfg["cloud_provider"] = "aws"
              /\ \E f \in RerunFlags :
                     /\ cfg["deploy_arc"] = f.deploy_arc
                     /\ cfg["deploy_ali"] = f.deploy_ali
                     /\ cfg["deploy_argocd"] = f.deploy_argocd
              /\ cfg["deploy_arc_gcp"] = "false" /\ cfg["deploy_ali_gcp"] = "false"
              /\ cfg["deploy_argocd_gcp"] = "false"
           \/ /\ cfg["cloud_provider"] = "gcp"
              /\ \E f \in RerunFlags :
                     /\ cfg["deploy_arc_gcp"] = f.deploy_arc
                     /\ cfg["deploy_ali_gcp"] = f.deploy_ali
                     /\ cfg["deploy_argocd_gcp"] = f.deploy_argocd
              /\ cfg["deploy_arc"] = "false" /\ cfg["deploy_ali"] = "false"
              /\ cfg["deploy_argocd"] = "false"}

\* What a run did, as seen from outside.
Observed ==
    [backend |-> backend, loaded |-> loaded, status |-> status,
     declared |-> declared, started |-> started, outputs |-> outputs,
     names |-> [l \in Layers |-> DeclaredBy(l)],
     keys |-> DOMAIN exports, exports |-> exports]

\* The program is run again with the same configuration; the backend may
\* answer differently.
Rerun ==
    /\ pc = "done"
    /\ previous = << >>
    /\ previous' = <<Observed>>
    /\ backend' \in Backends
    /\ pc' = "config"
    /\ cloud_provider' = ""
    /\ deploy_arc' = FALSE /\ deploy_ali' = FALSE /\ deploy_argocd' = FALSE
    /\ deploy_arc_gcp' = FALSE /\ deploy_ali_gcp' = FALSE
    /\ deploy_argocd_gcp' = FALSE
    /\ exports' = EmptyMap
    /\ published' = {}
    /\ republished' = {}
    /\ status' = [l \in Layers |-> "not_started"]
    /\ declared' = [l \in Layers |-> 0]
    /\ loaded' = [c \in Chains |-> "no"]
    /\ attempted' = {}
    /\ started' = << >>
    /\ outputs' = [l \in Layers |-> EmptyMap]
    /\ resolution' = [l \in Layers |-> "pending"]
    /\ UNCHANGED config

InitRerun ==
    /\ config \in RerunConfigs
    /\ backend = HomeBackend
    /\ previous = << >>
    /\ FreshRun

NextRerun ==
    \/ Next
    \/ Rerun

SpecRerun == InitRerun /\ [][NextRerun]_vars

InSecondRun == previous # << >>

(***************************************************************************)
(* C17: resource names are a function of the configuration                 *)
(***************************************************************************)
\* A layer that got as far in this run as in the earlier one.
SameProgress(layer) ==
    /\ status[layer] = previous[1].status[layer]
    /\ declared[layer] = previous[1].declared[layer]

\* A layer that completed in both runs on the same input.
SameCall(layer) ==
    /\ status[layer] = "done"
    /\ previous[1].status[layer] = "done"
    /\ InputOf(layer) =
           (CASE layer = "arc_helm" -> previous[1].outputs["arc_infra"]
              [] layer = "arc_argocd" -> previous[1].outputs["arc_helm"]
              [] layer = "arc_helm_gcp" -> previous[1].outputs["arc_infra_gcp"]
              [] layer = "arc_argocd_gcp" -> previous[1].outputs["arc_helm_gcp"]
              [] OTHER -> EmptyMap)

\* C17: a layer invoked twice under one configuration declares the same
\* set of (kind, logical name) pairs both times: when it completes on the
\* same input, and more generally whenever it gets equally far, whatever
\* the backend answered in either run.
C17_StableNames ==
    InSecondRun =>
        \A l \in Layers :
            (SameCall(l) \/ SameProgress(l)) =>
                DeclaredBy(l) = previous[1].names[l]

\* C17 witness: the rollout layer completed in two runs on the same input
\* while the secret held different payloads.
C17_Witness ==
    /\ InSecondRun
    /\ pc = "done"
    /\ SameCall("arc_argocd")
    /\ DeclaredBy("arc_argocd") # {}
    /\ backend.secret # previous[1].backend.secret

(***************************************************************************)
(* C20: control flow does not depend on backend-resolved values            *)
(***************************************************************************)
\* The declaration-time failures of a run: the chains whose import failed
\* and the layers that raised, each with the point where it raised.
Failures(ld, st, dc) ==
    [imports |-> {c \in Chains : ld[c] = "failed"},
     raised |-> {<<l, dc[l]>> : l \in {x \in Layers : st[x] = "failed"}}]

SameFailures ==
    Failures(loaded, status, declared) =
        Failures(previous[1].loaded, previous[1].status, previous[1].declared)

CancelsOnlyPending ==
    /\ \A l \in Layers :
           status[l] = "failed" =>
               /\ CompletedExportsIntact(ChainOf(l))
               /\ \A m \in LayersOf(ChainOf(l)) \ {l} :
                      \/ /\ status[m] = "done"
                         /\ declared[m] = Len(LayerResources(m))
                         /\ outputs[m] # EmptyMap
                      \/ /\ status[m] = "not_started"
                         /\ declared[m] = 0
    /\ pc = "done" => \A c \in Chains : ChainEnabled(c) => c \in attempted

\* One step of the run takes nothing back: no declaration is withdrawn, a
\* layer that returned or raised stays as it is, and every export keeps
\* its value.
NoRollbackStep ==
    /\ \A l \in Layers :
           /\ declared'[l] >= declared[l]
           /\ status[l] # "not_started" =>
                  /\ status'[l] = status[l]
                  /\ declared'[l] = declared[l]
                  /\ outputs'[l] = outputs[l]
    /\ \A k \in DOMAIN exports :
           k \in DOMAIN exports' /\ exports'[k] = exports[k]

\* C21: a failure inside a chain stops only the layers of that chain that
\* were not yet called (the other chains are still attempted); nothing
\* declared before the fault is rolled back, by the completed layers or by
\* the failing layer, and the Layer Outputs and exports of the completed
\* layers stay as they were.
C21_NoRollback ==
    /\ []CancelsOnlyPending
    /\ [][NoRollbackStep]_vars

C21_Witness ==
    /\ pc = "done"
    /\ deploy_argocd
    /\ declared["arc_infra"] = Len(LayerResources("arc_infra"))
    /\ outputs["arc_infra"] # EmptyMap
    /\ status["arc_helm"] = "failed"
    /\ declared["arc_helm"] = 5
    /\ status["arc_argocd"] = "not_started"
    /\ status["ali_infra"] = "done"

(***************************************************************************)
(* C22: the chains executed in another order or interleaved                *)
(***************************************************************************)
\* The layer whose Layer Output a layer is given, if any.
InputFrom(layer) ==
    CASE layer = "arc_helm" -> "arc_infra"
      [] layer = "arc_argocd" -> "arc_helm"
      [] layer = "arc_helm_gcp" -> "arc_infra_gcp"
      [] layer = "arc_argocd_gcp" -> "arc_helm_gcp"
      [] OTHER -> Absent

\* The flag of the optional rollout layers.
RolloutFlag(layer) ==
    CASE layer = "arc_argocd" -> deploy_argocd
      [] layer = "arc_argocd_gcp" -> deploy_argocd_gcp
      [] OTHER -> TRUE

\* The next statement of a chain's try block is the call of `layer`.
Ready(layer) ==
    /\ loaded[ChainOf(layer)] = "ok"
    /\ status[layer] = "not_started"
    /\ ~ChainFailed(ChainOf(layer))
    /\ InputFrom(layer) # Absent => status[InputFrom(layer)] = "done"
    /\ RolloutFlag(layer)

\* The configurations whose chains are interleaved: two or three chains
\* enabled, of one provider or of both, region and project set (and the
\* AWS ARC chain alone, without its rollout layer).
InterleaveFlags ==
    {<<"aws", "true", "true", "true", "false", "false", "false">>,
     <<"aws", "true", "false", "false", "false", "false", "false">>,
     <<"gcp", "false", "false", "false", "true", "false", "true">>,
     <<"gcp", "false", "false", "false", "true", "true", "false">>,
     <<"both", "false", "true", "false", "false", "true", "false">>}

InterleaveConfigs ==
    {cfg \in Configs :
        /\ cfg["aws_region"] # Absent /\ cfg["gcp_project"] # Absent
        /\ <<cfg["cloud_provider"], cfg["deploy_arc"], cfg["deploy_ali"],
              cfg["deploy_argocd"], cfg["deploy_arc_gcp"],
              cfg["deploy_ali_gcp"], cfg["deploy_argocd_gcp"]>>
               \in InterleaveFlags}

\* The program is run again with the same configuration and the same
\* backend.
RunAgain ==
    /\ pc = "done"
    /\ previous = << >>
    /\ previous' = <<Observed>>
    /\ pc' = "config"
    /\ cloud_provider' = ""
    /\ deploy_arc' = FALSE /\ deploy_ali' = FALSE /\ deploy_argocd' = FALSE
    /\ deploy_arc_gcp' = FALSE /\ deploy_ali_gcp' = FALSE
    /\ deploy_argocd_gcp' = FALSE
    /\ exports' = EmptyMap
    /\ published' = {}
    /\ republished' = {}
    /\ status' = [l \in Layers |-> "not_started"]
    /\ declared' = [l \in Layers |-> 0]
    /\ loaded' = [c \in Chains |-> "no"]
    /\ attempted' = {}
    /\ started' = << >>
    /\ outputs' = [l \in Layers |-> EmptyMap]
    /\ resolution' = [l \in Layers |-> "pending"]
    /\ UNCHANGED <<config, backend>>

\* In the second run the blocks of lines 106-186 are handed to an executor
\* that takes the statements of the chains in any order, one at a time.
Fork ==
    /\ pc = "arc"
    /\ previous # << >>
    /\ pc' = "chains"
    /\ UNCHANGED <<config, backend, previous, resolution, flagVars, sinkVars, layerVars,
                   loaded, attempted>>

\* The import statements of a chain (as LoadChain, the script staying with
\* the executor).
TurnLoad(chain) ==
    /\ pc = "chains"
    /\ ChainEnabled(chain)
    /\ chain \notin attempted
    /\ attempted' = attempted \cup {chain}
    /\ \E ok \in BOOLEAN :
         IF ok
         THEN /\ loaded' = [loaded EXCEPT ![chain] = "ok"]
              /\ UNCHANGED sinkVars
         ELSE /\ loaded' = [loaded EXCEPT ![chain] = "failed"]
              /\ SetSink(Export(Sink, chain, Main, NoteKey(chain), NoteText(chain)))
    /\ UNCHANGED <<config, backend, previous, resolution, pc, flagVars, layerVars>>

\* The call of a layer (as RunLayer, the script staying with the
\* executor).
TurnLayer(layer) ==
    /\ pc = "chains"
    /\ Ready(layer)
    /\ started' = Append(started, layer)
    /\ \E o \in CallOutcomes(layer, InputOf(layer)) :
         /\ declared' = [declared EXCEPT ![layer] = o.n]
         /\ IF o.raised
            THEN /\ status' = [status EXCEPT ![layer] = "failed"]
                 /\ outputs' = outputs
                 /\ SetSink(Export(Sink, ChainOf(layer), Main,
                                   NoteKey(ChainOf(layer)),
                                   NoteText(ChainOf(layer))))
            ELSE /\ status' = [status EXCEPT ![layer] = "done"]
                 /\ outputs' = [outputs EXCEPT ![layer] =
                                    LayerOutput(layer, InputOf(layer))]
                 /\ SetSink(Export(ExportAll(Sink, ChainOf(layer), layer,
                                             LayerExports(layer)),
                                   ChainOf(layer), Main, DeployedKey(layer), PyTrue))
    /\ UNCHANGED <<config, backend, previous, resolution, pc, flagVars, loaded, attempted>>

\* Every chain has ended: the script goes on with line 189.
Join ==
    /\ pc = "chains"
    /\ \A c \in Chains : ChainEnabled(c) => c \in attempted
    /\ \A l \in Layers : ~Ready(l)
    /\ pc' = "summary"
    /\ UNCHANGED <<config, backend, previous, resolution, flagVars, sinkVars, layerVars,
                   loaded, attempted>>

InitInterleaved ==
    /\ config \in InterleaveConfigs
    /\ backend = HomeBackend
    /\ previous = << >>
    /\ FreshRun

NextInterleaved ==
    \/ Next
    \/ RunAgain
    \/ Fork
    \/ \E c \in Chains : TurnLoad(c)
    \/ \E l \in Layers : TurnLayer(l)
    \/ Join

SpecInterleaved == InitInterleaved /\ [][NextInterleaved]_vars

\* The chains did not run in the order of the script.
OutOfOrder ==
    \E i, j \in 1 .. Len(started) :
        /\ i < j
        /\ PlaceOf(started[i]) > PlaceOf(started[j])

\* C22: a layer is given the Layer Output of a layer of its own chain or
\* nothing; and when the chains are executed in any order or interleaved,
\* the run ends, for the same configuration and the same failures, with
\* the resources, the Layer Outputs and the export namespace (keys and
\* values) of a run in the order of the script, no key being written
\* twice.
C22_ChainsIndependent ==
    /\ pc = "done" =>
           \A l \in Layers :
               /\ InputFrom(l) # Absent => ChainOf(InputFrom(l)) = ChainOf(l)
               /\ status[l] = "done" =>
                      outputs[l] = LayerOutput(l, IF InputFrom(l) = Absent
                                                  THEN EmptyMap
                                                  ELSE outputs[InputFrom(l)])
    /\ (InSecondRun /\ pc = "done" /\ SameFailures) =>
           /\ exports = previous[1].exports
           /\ [l \in Layers |-> DeclaredBy(l)] = previous[1].names
           /\ outputs = previous[1].outputs
           /\ status = previous[1].status
           /\ republished = {}

\* C22 witness: the second run ended like the first, with the same two
\* chains failed, after it called the layers of the chains interleaved and
\* against the order of the script.
C22_Witness ==
    /\ InSecondRun
    /\ pc = "done"
    /\ SameFailures
    /\ OutOfOrder
    /\ started # previous[1].started
    /\ status["ali_infra"] = "failed"
    /\ status["ali_infra_gcp"] = "failed"
    /\ status["backend_state_gcp"] = "done"

(***************************************************************************)
(* C23                                                                     *)
(***************************************************************************)
\* The value of a deploy flag as configured: true only for "true".
FlagOf(key) == config[key] = "true"

CatalogExported == "infrastructure_components" \in DOMAIN exports

\* C23: once the script is past its header the catalog is exported, and
\* whenever it is exported its four `enabled` entries are the configured
\* flags deploy_arc, deploy_ali, deploy_arc_gcp and deploy_ali_gcp,
\* whatever cloud_provider is and whatever became of the layers.
C23_CatalogMirrorsFlags ==
    /\ pc \notin {"config", "header", "fatal"} => CatalogExported
    /\ CatalogExported =>
           LET cat == exports["infrastructure_components"]
           IN  /\ cat.aws.arc.enabled = FlagOf("deploy_arc")
               /\ cat.aws.ali.enabled = FlagOf("deploy_ali")
               /\ cat.gcp.arc.enabled = FlagOf("deploy_arc_gcp")
               /\ cat.gcp.ali.enabled = FlagOf("deploy_ali_gcp")

\* C23 witness: a GCP-only run in which the AWS groups are enabled but
\* never attempted, one GCP layer failed and another returned.
C23_Witness ==
    /\ pc = "done"
    /\ cloud_provider = "gcp"
    /\ exports["infrastructure_components"].aws.arc.enabled
    /\ exports["infrastructure_components"].aws.ali.enabled
    /\ exports["infrastructure_components"].gcp.ali.enabled
    /\ ~exports["infrastructure_components"].gcp.arc.enabled
    /\ attempted \cap AwsChains = {}
    /\ status["ali_infra_gcp"] = "failed"
    /\ status["backend_state_gcp"] = "done"

(***************************************************************************)
(* C24                                                                     *)
(***************************************************************************)
\* The variable the script binds to a deploy flag.
FlagVariable(key) ==
    CASE key = "deploy_arc" -> deploy_arc
      [] key = "deploy_ali" -> deploy_ali
      [] key = "deploy_argocd" -> deploy_argocd
      [] key = "deploy_arc_gcp" -> deploy_arc_gcp
      [] key = "deploy_ali_gcp" -> deploy_ali_gcp
      [] key = "deploy_argocd_gcp" -> deploy_argocd_gcp

ConfigRead == pc \notin {"config", "fatal"}

EmptyConfig == \A k \in DOMAIN config : config[k] = Absent

\* C24: once the configuration is read, an absent cloud_provider has
\* become aws (it is exported as "aws", only AWS chains are attempted and
\* at the end exactly the configured ones), every absent deploy flag is
\* false, and with an empty configuration no layer is invoked, nothing is
\* declared and only the static entries are exported.
C24_MissingKeysDefault ==
    ConfigRead =>
        /\ config["cloud_provider"] = Absent =>
               /\ cloud_provider = "aws"
               /\ "cloud_provider" \in DOMAIN exports =>
                      exports["cloud_provider"] = "aws"
               /\ pc # "header" => "cloud_provider" \in DOMAIN exports
               /\ attempted \subseteq AwsChains
               /\ pc = "done" =>
                      attempted = {c \in AwsChains : Configured(c)}
        /\ \A k \in FlagKeys : config[k] = Absent => ~FlagVariable(k)
        /\ EmptyConfig =>
               /\ started = << >>
               /\ attempted = {}
               /\ NothingDeclared
               /\ DOMAIN exports \subseteq StaticKeys

\* C24 witness: the run with the empty configuration has ended.
C24_Witness ==
    /\ pc = "done"
    /\ EmptyConfig
    /\ exports["cloud_provider"] = "aws"
    /\ ~exports["infrastructure_components"].aws.arc.enabled
    /\ DOMAIN exports = StaticKeys
    /\ started = << >>

(***************************************************************************)
(* C25                                                                     *)
(***************************************************************************)
\* A success flag is in the export namespace (with the value True).
FlagSet(key) == key \in DOMAIN exports /\ exports[key] = PyTrue

FlagAbsent(key) == key \notin DOMAIN exports

\* rollout flag => bootstrap flag => base flag
FlagChain(base, bootstrap, rollout) ==
    /\ ~FlagAbsent(rollout) => FlagSet(bootstrap)
    /\ ~FlagAbsent(bootstrap) => FlagSet(base)

\* C25: in every state, for each provider, the rollout flag of the ARC
\* chain is exported only if the bootstrap flag is, and the bootstrap flag
\* only if the base flag is.
C25_FlagsFormChain ==
    /\ FlagChain("arc_infrastructure_deployed", "arc_helm_deployed",
                 "arc_argocd_deployed")
    /\ FlagChain("arc_gcp_infrastructure_deployed", "arc_gcp_helm_deployed",
                 "arc_gcp_argocd_deployed")

\* C25 witness: the AWS chain stopped in its rollout layer with the two
\* earlier flags exported, the GCP chain has all three.
C25_Witness ==
    /\ FlagSet("arc_infrastructure_deployed")
    /\ FlagSet("arc_helm_deployed")
    /\ FlagAbsent("arc_argocd_deployed")
    /\ status["arc_argocd"] = "failed"
    /\ FlagSet("arc_gcp_infrastructure_deployed")
    /\ FlagSet("arc_gcp_helm_deployed")
    /\ FlagSet("arc_gcp_argocd_deployed")

(***************************************************************************)
(* C26                                                                     *)
(***************************************************************************)
\* The layers of a chain the script calls when nothing fails: all of them,
\* the rollout layer only with its flag.
EnabledLayers(chain) == {l \in LayersOf(chain) : RolloutFlag(l)}

\* The last of them.
LastEnabledLayer(chain) ==
    LET ls == OrderedLayers(chain)
    IN  IF RolloutFlag(ls[Len(ls)]) THEN ls[Len(ls)] ELSE ls[Len(ls) - 1]

NotePresent(chain) == ChainNoteKey(chain) \in DOMAIN exports

AllFlagsPresent(chain) ==
    \A l \in EnabledLayers(chain) : DeployedKey(l) \in DOMAIN exports

\* C26: at the end of a run, a chain that was attempted has either its
\* deployment note or the flags of all its enabled layers, never both and
\* never neither; its note is never together with the flag of its last
\* enabled layer; a chain that was not attempted has no note and no flag.
C26_NoteOrAllFlags ==
    pc = "done" =>
        \A c \in Chains :
            IF c \in attempted
            THEN /\ NotePresent(c) # AllFlagsPresent(c)
                 /\ ~(NotePresent(c)
                      /\ DeployedKey(LastEnabledLayer(c)) \in DOMAIN exports)
            ELSE /\ ~NotePresent(c)
                 /\ \A l \in LayersOf(c) : DeployedKey(l) \notin DOMAIN exports

\* C26 witness: a run with a chain of each kind: all flags, note after
\* some flags, note without any flag, and not attempted.
C26_Witness ==
    /\ pc = "done"
    /\ ~deploy_argocd
    /\ AllFlagsPresent("arc") /\ ~NotePresent("arc")
    /\ "arc_argocd_deployed" \notin DOMAIN exports
    /\ deploy_argocd_gcp
    /\ NotePresent("arc_gcp")
    /\ "arc_gcp_helm_deployed" \in DOMAIN exports
    /\ loaded["shared_gcp"] = "failed" /\ NotePresent("shared_gcp")
    /\ "ali" \notin attempted
    /\ "ali_gcp" \notin attempted

(***************************************************************************)
(* C27                                                                     *)
(***************************************************************************)
\* The layers that have published a key themselves.
Publishers == {q[2] : q \in published} \ {Main}

\* C27: a layer has published keys of its own only if it declared all its
\* resources and returned, and then it has published all of them; a layer
\* that raised has published none of its result keys, also when it
\* declared resources before the fault.
C27_ResultsAllOrNothing ==
    /\ \A q \in published :
           q[2] # Main =>
               /\ status[q[2]] = "done"
               /\ declared[q[2]] = Len(LayerResources(q[2]))
    /\ pc = "done" =>
           \A l \in Layers :
               /\ status[l] = "done" =>
                      KeysBy(ChainOf(l), l) = ItemKeys(LayerExports(l))
               /\ status[l] = "failed" =>
                      ItemKeys(LayerExports(l)) \cap DOMAIN exports = {}

\* C27 witness: the AWS bootstrap layer raised after five declarations and
\* none of its results is exported, the base layer's are.
C27_Witness ==
    /\ pc = "done"
    /\ status["arc_helm"] = "failed"
    /\ declared["arc_helm"] = 5
    /\ "arc_helm" \notin Publishers
    /\ "arc_argocd_namespace" \notin DOMAIN exports
    /\ "arc_infra" \in Publishers
    /\ "arc_vpc_id" \in DOMAIN exports

(***************************************************************************)
(* C28                                                                     *)
(***************************************************************************)
\* The condition of line 177 under the gate of line 142.
SharedWanted ==
    /\ cloud_provider \in {"gcp", "both"}
    /\ FlagOf("deploy_arc_gcp") \/ FlagOf("deploy_ali_gcp")

\* A chain's block is behind the script: it was passed over, or it was
\* entered and ran to its end or into its except block.
ChainOver(chain) ==
    /\ PlaceOf(pc) > PlaceOf(chain)
    /\ pc \notin LayersOf(chain)
    /\ chain \in attempted => ChainFailed(chain) \/ AllFlagsPresent(chain)

SharedAttempted == "shared_gcp" \in attempted

\* C28: the shared GCP layer is attempted only if GCP is selected and
\* deploy_arc_gcp or deploy_ali_gcp is true, and by the end of the run it
\* then has been attempted, whether or not the GCP ARC and ALI chains
\* failed; when it is attempted those two chains are over, and its layer
\* is called after every layer of theirs.
C28_SharedGcpAttempted ==
    /\ SharedAttempted => SharedWanted
    /\ pc = "done" => (SharedAttempted <=> SharedWanted)
    /\ SharedAttempted => ChainOver("arc_gcp") /\ ChainOver("ali_gcp")
    /\ Invoked("backend_state_gcp") =>
           \A l \in LayersOf("arc_gcp") \cup LayersOf("ali_gcp") :
               Invoked(l) => PositionOf(l) < PositionOf("backend_state_gcp")

\* C28 witness: the GCP ARC and ALI chains both failed and the shared
\* layer was called and returned.
C28_Witness ==
    /\ pc = "done"
    /\ ChainFailed("arc_gcp")
    /\ ChainFailed("ali_gcp")
    /\ SharedAttempted
    /\ status["backend_state_gcp"] = "done"
    /\ started[Len(started)] = "backend_state_gcp"
    /\ Len(started) > 2

(***************************************************************************)
(* C29                                                                     *)
(***************************************************************************)
ArcChains == {"arc", "arc_gcp"}

\* Nothing of a chain but its note: no layer called, nothing declared, no
\* flag and no result exported.
OnlyNote(chain) ==
    /\ chain \in attempted
    /\ \A l \in LayersOf(chain) :
           /\ ~Invoked(l)
           /\ status[l] = "not_started"
           /\ declared[l] = 0
           /\ DeployedKey(l) \notin DOMAIN exports
    /\ KeysOf(chain) = {ChainNoteKey(chain)}
    /\ NotePresent(chain)

\* C29: the modules of an ARC chain (rollout, bootstrap, base) are loaded
\* in one step at the head of the chain's try block, whatever the rollout
\* flag is: a layer of the chain is called only after that step succeeded,
\* and when it failed no layer of the chain runs, no flag of the chain is
\* exported, and the chain's deployment note is its only export.
C29_LoadFailureStopsChain ==
    \A c \in ArcChains :
        /\ \A l \in LayersOf(c) : Invoked(l) => loaded[c] = "ok"
        /\ loaded[c] = "failed" => OnlyNote(c)

\* C29 witness: the modules of both ARC chains failed to load, on AWS with
\* the rollout flag false, on GCP with the rollout flag true.
C29_Witness ==
    /\ pc = "done"
    /\ loaded["arc"] = "failed"
    /\ ~deploy_argocd
    /\ OnlyNote("arc")
    /\ loaded["arc_gcp"] = "failed"
    /\ deploy_argocd_gcp
    /\ OnlyNote("arc_gcp")
    /\ status["ali_infra"] = "done"

(***************************************************************************)
(* C30: resolution of Deferred Values by the backend                       *)
(***************************************************************************)
\* The Deferred Values of the resources a layer declared, taken together:
\* pending until the backend has applied the declarations, then resolved or
\* failed, once.
Resolutions == {"resolved", "failed"}

FlagIn(sink, key) == key \in DOMAIN sink /\ sink[key] = PyTrue

ResolveRetracts(layer) ==
    /\ status[layer] # "not_started"
    /\ declared[layer] > 0
    /\ resolution[layer] = "pending"
    /\ \E r \in Resolutions :
           /\ resolution' = [resolution EXCEPT ![layer] = r]
           /\ exports' = IF r = "failed"
                           THEN [k \in DOMAIN exports \ {DeployedKey(layer)}
                                    |-> exports[k]]
                           ELSE exports
    /\ UNCHANGED <<config, pc, flagVars, published, republished, layerVars,
                   loaded, attempted, backend, previous>>

\* The backend applies the declarations of a layer whose call is over and
\* resolves their Deferred Values, or fails to.  The script takes no part:
\* no statement of src/ waits for a Deferred Value or reads one, so nothing
\* of the script's state changes.
Resolve(layer) ==
    /\ status[layer] # "not_started"
    /\ declared[layer] > 0
    /\ resolution[layer] = "pending"
    /\ \E r \in Resolutions :
           resolution' = [resolution EXCEPT ![layer] = r]
    /\ UNCHANGED <<config, pc, flagVars, sinkVars, layerVars, loaded,
                   attempted, backend, previous>>

NextResolution ==
    \/ Next
    \/ \E l \in Layers : Resolve(l)

\* One run of the program with the backend resolving behind it.
SpecResolution == InitRerun /\ [][NextResolution]_vars

\* The step in which the call of a layer returns.
Returns(layer) == status[layer] = "not_started" /\ status'[layer] = "done"

FlagStep ==
    \A l \in Layers :
        /\ Returns(l) =>
               /\ FlagIn(exports', DeployedKey(l))
               /\ resolution'[l] = "pending"
        /\ (~FlagIn(exports, DeployedKey(l))
              /\ FlagIn(exports', DeployedKey(l))) => Returns(l)
        /\ FlagIn(exports, DeployedKey(l)) => FlagIn(exports', DeployedKey(l))

====
